---- MODULE Spec2Model ----
(***************************************************************************)
(* Knowledge-base document ingestion and retrieval (ai-chatbot-rag).       *)
(*                                                                         *)
(* State: the metadata store (KnowledgeBase, RAGDocument, DocumentChunk    *)
(* rows), the vector index, one detached ingestion pipeline per document   *)
(* (processDocumentAsync and the .catch handler attached to it at upload)  *)
(* and the API requests in flight.  Every await of the source is a step:   *)
(* other pipelines and requests may run between two steps.                 *)
(***************************************************************************)
EXTENDS Integers, Sequences, FiniteSets, TLC

\* ------------------------------------------------------------- bounds ----
MaxDocs == 2        \* document rows ever created
MaxInFlight == 1    \* API requests in flight at the same time
MaxIngesting == 1   \* documents being ingested at the same time
MaxRequests == 1    \* delete, reprocess and search requests ever started
MaxCandidates == 3  \* candidates handed to a retrieval function (LibSpec)
MaxTexts == 3       \* texts handed to generateEmbeddings (LibSpec)
MaxPages == 2       \* pages handed to splitPDFByPages
MaxPieces == 4      \* chunks the text splitter returns for one text (LibSpec)
MaxUploads == 2     \* upload requests in flight at the same time (UploadSpec)
MaxFilesPerRequest == 2  \* files of one upload request (UploadSpec)
MaxListing == 2     \* requests in flight next to the cache (StatsSpec)

\* -------------------------------------------------- program constants ----
MaxDocsPerKb == 100
DeleteQueryTopK == 10000
DefaultBatchSize == 100

\* Two knowledge bases exist at the start, each created by its own user.
KBIds == {"A", "B"}
Users == {"u1", "u2"}
OwnerAtStart(k) == IF k = "A" THEN "u1" ELSE "u2"
DocIds == 1..MaxDocs
Slots == 1..MaxInFlight

Undefined == "undefined"   \* an omitted (undefined) argument
Null == "null"             \* SQL NULL

\* ------------------------------------------------------ uploaded files ----
\* A file is known by the segments the text splitter cuts its text into; a
\* segment is the sequence of its (lower-case) words.  blank.txt holds only
\* white space.
Files == {"guide.txt", "blank.txt"}

SplitText(f) ==
    IF f = "guide.txt" THEN << <<"alpha", "beta">>, <<"alpha", "beta", "gamma">> >>
    ELSE IF f = "notes.txt" THEN << <<"gamma">> >>
    ELSE << >>

IsBlank(f) == f = "blank.txt"

RECURSIVE CharLength(_)
\* length of the string made of the words joined by single blanks
CharLength(words) ==
    IF words = << >> THEN 0
    ELSE Len(Head(words)) + (IF Len(words) > 1 THEN 1 ELSE 0)
         + CharLength(Tail(words))

estimateTokenCount(text) == (CharLength(text) + 3) \div 4

\* a faulty variant of splitIntoChunks that numbers the chunks from 1
splitIntoChunksFromOne(f) ==
    [i \in 1..Len(SplitText(f)) |->
        [content    |-> SplitText(f)[i],
         chunkIndex |-> i,
         tokenCount |-> estimateTokenCount(SplitText(f)[i])]]

\* splitIntoChunks: one record per segment, numbered from 0
splitIntoChunks(f) ==
    [i \in 1..Len(SplitText(f)) |->
        [content    |-> SplitText(f)[i],
         chunkIndex |-> i - 1,
         tokenCount |-> estimateTokenCount(SplitText(f)[i])]]

\* the page texts handed to splitPDFByPages: the texts of the files and a
\* one-segment text
PageTexts == Files \cup {"notes.txt"}

PagesUpTo(n) ==
    UNION {[1..k -> [content : PageTexts, pageNumber : 1..n]] : k \in 0..n}

RECURSIVE splitPDFByPages(_)
\* splitPDFByPages: splitIntoChunks page by page, the chunks renumbered by
\* globalChunkIndex; a blank page makes splitIntoChunks throw, and the error
\* is thrown on
splitPDFByPages(pages) ==
    IF pages = << >> THEN [ok |-> TRUE, allChunks |-> << >>]
    ELSE LET before == splitPDFByPages(SubSeq(pages, 1, Len(pages) - 1))
             page   == pages[Len(pages)]
             chunks == splitIntoChunks(page.content)
             pageChunks == [k \in 1..Len(chunks) |->
                              [content    |-> chunks[k].content,
                               chunkIndex |-> Len(before.allChunks) + k - 1,
                               tokenCount |-> chunks[k].tokenCount,
                               page       |-> page.pageNumber]]
         IN  IF ~before.ok \/ IsBlank(page.content)
             THEN [ok |-> FALSE, allChunks |-> << >>]
             ELSE [ok |-> TRUE, allChunks |-> before.allChunks \o pageChunks]

\* generateEmbedding: the provider's vector for a text, an opaque value
\* that is a function of the text
generateEmbedding(text) == <<"emb", text>>

\* a faulty variant of generateEmbeddings: the vectors in reverse order
generateEmbeddingsReversed(texts) ==
    [i \in 1..Len(texts) |-> generateEmbedding(texts[Len(texts) + 1 - i])]

generateEmbeddings(texts) == [i \in 1..Len(texts) |-> generateEmbedding(texts[i])]

\* generateUUID inside upsertVectors: the pipeline of a document runs once,
\* so (document, position) names a fresh identifier
generateUUID(d, i) == <<d, i>>

\* ------------------------------------------------------------ errors ----
\* One token per throw site, named by the text given at the site; it stands
\* for error.message, which updateRAGDocumentStatus stores.
ErrFetch     == "Failed to download file from blob storage"
ErrExtract   == "Failed to extract text content"
ErrEmptyText == "Text cannot be empty"
ErrNoChunks  == "No content could be extracted from the document"
ErrEmbed     == "Failed to generate batch embeddings"
ErrGetDoc    == "Failed to get RAG document by id"
ErrNotFound  == "Document not found during processing"
ErrUpsert    == "Failed to upsert vectors"
ErrSave      == "Failed to save document chunks"
ErrStatus    == "Failed to update RAG document status"
NoError      == "none"

VARIABLES
    kbRows,     \* KnowledgeBase table: id -> [userId]
    docRows,    \* RAGDocument table: id -> [knowledgeBaseId, originalName, status, errorMessage]
    docCount,   \* RAGDocument ids generated so far
    chunkRows,  \* DocumentChunk table: set of rows
    index,      \* the vector index: set of records [id, values, metadata...]
    proc,       \* per document: the detached processDocumentAsync call
    req,        \* per slot: the API request in flight
    started,    \* delete, reprocess and search requests started so far
    call,       \* a library function called on its own (LibSpec only)
    cache       \* the Redis store: per user, the value under kb:user:<id>

vars == <<kbRows, docRows, docCount, chunkRows, index, proc, req, started, call, cache>>

\* ------------------------------------------------- metadata store ops ----
DocsOfKb(rows, k) == {d \in DOMAIN rows : rows[d].knowledgeBaseId = k}

ChunksOfDoc(rows, d) == {c \in rows : c.documentId = d}

\* a faulty variant of updateRAGDocumentStatus: the UPDATE has no WHERE
updateRAGDocumentStatusEveryRow(rows, id, status, errorMessage) ==
    [d \in DOMAIN rows |->
        [rows[d] EXCEPT !.status = status,
                        !.errorMessage = IF errorMessage = Undefined THEN @ ELSE errorMessage]]

\* updateRAGDocumentStatus: UPDATE ... SET status, errorMessage WHERE id;
\* an undefined errorMessage is left out of the SET list; no row, no change
updateRAGDocumentStatus(rows, id, status, errorMessage) ==
    IF id \in DOMAIN rows
    THEN [rows EXCEPT ![id] =
            [@ EXCEPT !.status = status,
                      !.errorMessage = IF errorMessage = Undefined THEN @ ELSE errorMessage]]
    ELSE rows

\* saveRAGDocument: the INSERT fails on the foreign key when the knowledge
\* base row is gone
SaveRAGDocumentAllowed(kbs, k) == k \in DOMAIN kbs

saveRAGDocument(rows, id, k, f, status) ==
    [d \in DOMAIN rows \cup {id} |->
        IF d = id
        THEN [knowledgeBaseId |-> k, originalName |-> f,
              status |-> status, errorMessage |-> Null]
        ELSE rows[d]]

\* saveDocumentChunks: one INSERT of all rows; fails as a whole on the
\* foreign key when the document row is gone
SaveDocumentChunksAllowed(rows, d) == d \in DOMAIN rows

\* ------------------------------------------------------ vector index ----
\* upsertVectors: one record per chunk, in the order of the chunks
upsertRecords(d, k, f, chunks, embeddings) ==
    [i \in 1..Len(chunks) |->
        [id              |-> generateUUID(d, i),
         values          |-> embeddings[i],
         documentId      |-> d,
         knowledgeBaseId |-> k,
         chunkIndex      |-> chunks[i].chunkIndex,
         content         |-> chunks[i].content,
         fileName        |-> f,
         tokenCount      |-> chunks[i].tokenCount]]

Range(s) == {s[i] : i \in DOMAIN s}

IndexUpsert(idx, records) ==
    {v \in idx : v.id \notin {r.id : r \in Range(records)}} \cup Range(records)

\* the chunk rows processDocumentAsync hands to saveDocumentChunks
chunkRecords(d, chunks, pineconeIds) ==
    {[documentId |-> d,
      content    |-> chunks[i].content,
      chunkIndex |-> chunks[i].chunkIndex,
      tokenCount |-> chunks[i].tokenCount,
      pineconeId |-> pineconeIds[i],
      id         |-> <<"row", d, chunks[i].chunkIndex>>] : i \in 1..Len(chunks)}

\* --------------------------------------------------------- requests ----
NoOptions == [topK |-> 0, minScore |-> 0, maxTokens |-> 0]

NoContext == [chunks |-> << >>, totalTokens |-> 0, sources |-> << >>]

Idle == [kind |-> "idle", pc |-> "idle", kb |-> "none",
         doc |-> 0, file |-> "none", resp |-> "none", vec |-> "none",
         ids |-> {}, idle0 |-> FALSE,
         options |-> NoOptions, scores |-> << >>, results |-> << >>,
         context |-> NoContext]

\* err: the error the catch block of processDocumentAsync caught; rej: the
\* rejection the returned promise carries to the .catch handler
NoCall == [fn |-> "none"]

\* no key is stored; a stored value v is kept as <<v>>
NoCache == [u \in Users |-> << >>]

NoProc == [pc |-> "none", err |-> NoError, rej |-> NoError, file |-> "none", kb |-> "none"]

Init ==
    /\ kbRows = [k \in KBIds |-> [userId |-> OwnerAtStart(k)]]
    /\ docRows = << >>
    /\ docCount = 0
    /\ chunkRows = {}
    /\ index = {}
    /\ proc = [d \in DocIds |-> NoProc]
    /\ req = [s \in Slots |-> Idle]
    /\ started = 0
    /\ call = NoCall
    /\ cache = NoCache

\* a request that ends: what it was about and its response
Finish(s, resp) ==
    [req EXCEPT ![s].pc = "done", ![s].resp = resp, ![s].file = "none", ![s].ids = {}]

\* the checks every route starts with: getKnowledgeBaseById, then ownership
AccessCheck(u, k) ==
    IF k \notin DOMAIN kbRows THEN "not_found"
    ELSE IF kbRows[k].userId # u THEN "forbidden"
    ELSE "ok"

InFlight(d) == proc[d].pc \notin {"none", "done", "unhandled"}

Ingesting == {d \in DocIds : InFlight(d)}

\* ------------------------------------------- POST documents (upload) ----
UploadStart(s, u, k, f) ==
    /\ req[s].kind = "idle"
    /\ docCount < MaxDocs
    /\ Cardinality(Ingesting) < MaxIngesting
    /\ req' = [req EXCEPT ![s] =
          IF AccessCheck(u, k) = "ok"
          THEN [Idle EXCEPT !.kind = "upload", !.pc = "limit", !.kb = k, !.file = f]
          ELSE [Idle EXCEPT !.kind = "upload", !.pc = "done", !.resp = AccessCheck(u, k)]]
    /\ UNCHANGED <<kbRows, docRows, docCount, chunkRows, index, proc, started, call, cache>>

\* getRAGDocumentsByKnowledgeBaseId and the document limit
UploadCheckLimit(s) ==
    /\ req[s].kind = "upload" /\ req[s].pc = "limit"
    /\ req' = IF Cardinality(DocsOfKb(docRows, req[s].kb)) + 1 > MaxDocsPerKb
              THEN Finish(s, "bad_request")
              ELSE [req EXCEPT ![s].pc = "put"]
    /\ UNCHANGED <<kbRows, docRows, docCount, chunkRows, index, proc, started, call, cache>>

\* uploadAndProcessDocument: put(file.name, file) stores the bytes in the
\* blob store; a request at "save" has its bytes stored
UploadPut(s) ==
    /\ req[s].kind = "upload" /\ req[s].pc = "put"
    /\ \E ok \in BOOLEAN :
         req' = IF ok THEN [req EXCEPT ![s].pc = "save"] ELSE Finish(s, "error")
    /\ UNCHANGED <<kbRows, docRows, docCount, chunkRows, index, proc, started, call, cache>>

\* a faulty variant of processDocumentAsyncStarted: the call is awaited
processDocumentAsyncAwaited(f) ==
    [pc |-> "done", err |-> NoError, rej |-> NoError, file |-> f, kb |-> "none"]

\* processDocumentAsync(...) called and not awaited: it stands at its first
\* await, the fetch
processDocumentAsyncStarted(f) ==
    [pc |-> "fetch", err |-> NoError, rej |-> NoError, file |-> f, kb |-> "none"]

\* uploadAndProcessDocument: saveRAGDocument with status processing, then
\* processDocumentAsync is started and not awaited, and the row is returned
UploadSave(s) ==
    /\ req[s].kind = "upload" /\ req[s].pc = "save"
    /\ docCount < MaxDocs
    /\ Cardinality(Ingesting) < MaxIngesting
    /\ IF SaveRAGDocumentAllowed(kbRows, req[s].kb)
       THEN /\ docCount' = docCount + 1
            /\ docRows' = saveRAGDocument(docRows, docCount + 1, req[s].kb,
                                          req[s].file, "processing")
            /\ proc' = [proc EXCEPT ![docCount + 1] = processDocumentAsyncStarted(req[s].file)]
            /\ req' = [Finish(s, "ok") EXCEPT ![s].doc = docCount + 1]
       ELSE /\ req' = Finish(s, "error")
            /\ UNCHANGED <<docRows, docCount, proc, started>>
    /\ UNCHANGED <<kbRows, chunkRows, index, started, call, cache>>

\* ------------------------------------------- processDocumentAsync ----
Throw(d, e) == [proc EXCEPT ![d].pc = "catch", ![d].err = e]

Goto(d, pc) == [proc EXCEPT ![d].pc = pc]

\* fetch(fileUrl) and response.ok
ProcFetch(d) ==
    /\ proc[d].pc = "fetch"
    /\ \E ok \in BOOLEAN :
         proc' = IF ok THEN Goto(d, "extract") ELSE Throw(d, ErrFetch)
    /\ UNCHANGED <<kbRows, docRows, docCount, chunkRows, index, req, started, call, cache>>

\* extractTextContent
ProcExtract(d) ==
    /\ proc[d].pc = "extract"
    /\ \E ok \in BOOLEAN :
         proc' = IF ok THEN Goto(d, "split") ELSE Throw(d, ErrExtract)
    /\ UNCHANGED <<kbRows, docRows, docCount, chunkRows, index, req, started, call, cache>>

\* splitIntoChunks, then the check for an empty chunk list
ProcSplit(d) ==
    /\ proc[d].pc = "split"
    /\ proc' = IF IsBlank(proc[d].file) THEN Throw(d, ErrEmptyText)
               ELSE IF Len(splitIntoChunks(proc[d].file)) = 0 THEN Throw(d, ErrNoChunks)
               ELSE Goto(d, "embed")
    /\ UNCHANGED <<kbRows, docRows, docCount, chunkRows, index, req, started, call, cache>>

\* a faulty variant of AfterEmbed that notes the failure and goes on
AfterEmbedGoesOn(d, failed) ==
    [proc EXCEPT ![d].pc = "getdoc",
                 ![d].err = IF failed = {} THEN NoError ELSE ErrEmbed]

\* generateEmbeddings rejects as soon as the provider call of one text
\* fails (Promise.all); the rejection lands in the catch block
AfterEmbed(d, failed) ==
    IF failed = {} THEN Goto(d, "getdoc") ELSE Throw(d, ErrEmbed)

\* generateEmbeddings for all chunk texts; failed: the texts whose provider
\* call fails
ProcEmbed(d) ==
    /\ proc[d].pc = "embed"
    /\ \E failed \in SUBSET (1..Len(splitIntoChunks(proc[d].file))) :
         proc' = AfterEmbed(d, failed)
    /\ UNCHANGED <<kbRows, docRows, docCount, chunkRows, index, req, started, call, cache>>

\* getRAGDocumentById: the row read here supplies knowledgeBaseId and
\* originalName for the vectors
ProcGetDocument(d) ==
    /\ proc[d].pc = "getdoc"
    /\ \E ok \in BOOLEAN :
         proc' = IF ~ok THEN Throw(d, ErrGetDoc)
                 ELSE IF d \notin DOMAIN docRows THEN Throw(d, ErrNotFound)
                 ELSE [proc EXCEPT ![d].pc = "upsert",
                                   ![d].kb = docRows[d].knowledgeBaseId]
    /\ UNCHANGED <<kbRows, docRows, docCount, chunkRows, index, req, started, call, cache>>

ProcChunks(d) == splitIntoChunks(proc[d].file)

ProcRecords(d) ==
    upsertRecords(d, proc[d].kb, proc[d].file, ProcChunks(d),
                  generateEmbeddings([i \in 1..Len(ProcChunks(d)) |-> ProcChunks(d)[i].content]))

\* upsertVectors
ProcUpsert(d) ==
    /\ proc[d].pc = "upsert"
    /\ \E ok \in BOOLEAN :
         IF ok
         THEN /\ index' = IndexUpsert(index, ProcRecords(d))
              /\ proc' = Goto(d, "save")
         ELSE /\ proc' = Throw(d, ErrUpsert)
              /\ UNCHANGED index
    /\ UNCHANGED <<kbRows, docRows, docCount, chunkRows, req, started, call, cache>>

\* saveDocumentChunks
ProcSaveChunks(d) ==
    /\ proc[d].pc = "save"
    /\ \E ok \in BOOLEAN :
         IF ok /\ SaveDocumentChunksAllowed(docRows, d)
         THEN /\ chunkRows' = chunkRows \cup
                    chunkRecords(d, ProcChunks(d),
                                 [i \in 1..Len(ProcChunks(d)) |-> ProcRecords(d)[i].id])
              /\ proc' = Goto(d, "ready")
         ELSE /\ proc' = Throw(d, ErrSave)
              /\ UNCHANGED chunkRows
    /\ UNCHANGED <<kbRows, docRows, docCount, index, req, started, call, cache>>

\* updateRAGDocumentStatus(ready): the promise resolves, so the handler
\* attached at upload never runs
ProcMarkReady(d) ==
    /\ proc[d].pc = "ready"
    /\ \E ok \in BOOLEAN :
         IF ok
         THEN /\ docRows' = updateRAGDocumentStatus(docRows, d, "ready", Undefined)
              /\ proc' = Goto(d, "done")
         ELSE /\ proc' = Throw(d, ErrStatus)
              /\ UNCHANGED docRows
    /\ UNCHANGED <<kbRows, docCount, chunkRows, index, req, started, call, cache>>

\* the catch block: updateRAGDocumentStatus(failed, error.message), then
\* the error is thrown again; a failing update replaces the error
ProcCatch(d) ==
    /\ proc[d].pc = "catch"
    /\ \E ok \in BOOLEAN :
         IF ok
         THEN /\ docRows' = updateRAGDocumentStatus(docRows, d, "failed", proc[d].err)
              /\ proc' = [proc EXCEPT ![d].pc = "handler", ![d].rej = proc[d].err]
         ELSE /\ proc' = [proc EXCEPT ![d].pc = "handler", ![d].rej = ErrStatus]
              /\ UNCHANGED docRows
    /\ UNCHANGED <<kbRows, docCount, chunkRows, index, req, started, call, cache>>

\* the .catch handler of uploadAndProcessDocument; when its update fails
\* the rejection is handled by nobody
UploadCatchHandler(d) ==
    /\ proc[d].pc = "handler"
    /\ \E ok \in BOOLEAN :
         IF ok
         THEN /\ docRows' = updateRAGDocumentStatus(docRows, d, "failed", proc[d].rej)
              /\ proc' = Goto(d, "done")
         ELSE /\ proc' = Goto(d, "unhandled")
              /\ UNCHANGED docRows
    /\ UNCHANGED <<kbRows, docCount, chunkRows, index, req, started, call, cache>>

ProcStep(d) ==
    \/ ProcFetch(d)
    \/ ProcExtract(d)
    \/ ProcSplit(d)
    \/ ProcEmbed(d)
    \/ ProcGetDocument(d)
    \/ ProcUpsert(d)
    \/ ProcSaveChunks(d)
    \/ ProcMarkReady(d)
    \/ ProcCatch(d)
    \/ UploadCatchHandler(d)

\* ------------------------------------------- DELETE documents/[docId] ----
DocDeleteStart(s, u, k, d) ==
    /\ req[s].kind = "idle"
    /\ started < MaxRequests
    /\ started' = started + 1
    /\ d <= docCount
    /\ req' = [req EXCEPT ![s] =
          IF AccessCheck(u, k) = "ok"
          THEN [Idle EXCEPT !.kind = "docDelete", !.pc = "getdoc", !.kb = k, !.doc = d, !.idle0 = ~InFlight(d)]
          ELSE [Idle EXCEPT !.kind = "docDelete", !.pc = "done", !.resp = AccessCheck(u, k)]]
    /\ UNCHANGED <<kbRows, docRows, docCount, chunkRows, index, proc, call, cache>>

\* getRAGDocumentById and the membership check shared by the DELETE and the
\* reprocess routes
DocumentCheck(k, d) ==
    IF d \notin DOMAIN docRows THEN "not_found"
    ELSE IF docRows[d].knowledgeBaseId # k THEN "forbidden"
    ELSE "ok"

DocDeleteGetDocument(s) ==
    /\ req[s].kind = "docDelete" /\ req[s].pc = "getdoc"
    /\ req' = IF DocumentCheck(req[s].kb, req[s].doc) = "ok"
              THEN [req EXCEPT ![s].pc = "vectors"]
              ELSE Finish(s, DocumentCheck(req[s].kb, req[s].doc))
    /\ UNCHANGED <<kbRows, docRows, docCount, chunkRows, index, proc, started, call, cache>>

\* a faulty variant of deleteManyByDocument that deletes nothing
deleteManyNothing(idx, d) == idx

\* index.deleteMany({filter: documentId})
deleteManyByDocument(idx, d) == {v \in idx : v.documentId # d}

\* deleteVectorsByDocument: a failing index call is thrown again as a
\* ChatSDKError; the route catches it, logs it and goes on
deleteVectorsByDocumentOutcome(ok) == IF ok THEN "ok" ELSE "threw"

DocDeleteVectors(s) ==
    /\ req[s].kind = "docDelete" /\ req[s].pc = "vectors"
    /\ \E ok \in BOOLEAN :
         /\ index' = IF ok THEN deleteManyByDocument(index, req[s].doc) ELSE index
         /\ req' = [req EXCEPT ![s].pc = "chunks",
                               ![s].vec = deleteVectorsByDocumentOutcome(ok)]
    /\ UNCHANGED <<kbRows, docRows, docCount, chunkRows, proc, started, call, cache>>

\* deleteRAGDocument, first statement: DELETE FROM DocumentChunk
DocDeleteChunks(s) ==
    /\ req[s].kind = "docDelete" /\ req[s].pc = "chunks"
    /\ chunkRows' = chunkRows \ ChunksOfDoc(chunkRows, req[s].doc)
    /\ req' = [req EXCEPT ![s].pc = "row"]
    /\ UNCHANGED <<kbRows, docRows, docCount, index, proc, started, call, cache>>

\* DELETE FROM RAGDocument is refused by the foreign key of DocumentChunk
\* (ON DELETE no action) while a chunk row points at one of the rows
DeleteDocRowsAllowed(chunks, ds) == \A c \in chunks : c.documentId \notin ds

RemoveRows(rows, ds) == [d \in DOMAIN rows \ ds |-> rows[d]]

\* deleteRAGDocument, second statement, and the response
DocDeleteRow(s) ==
    /\ req[s].kind = "docDelete" /\ req[s].pc = "row"
    /\ IF DeleteDocRowsAllowed(chunkRows, {req[s].doc})
       THEN /\ docRows' = RemoveRows(docRows, {req[s].doc})
            /\ req' = Finish(s, "ok")
       ELSE /\ req' = Finish(s, "error")
            /\ UNCHANGED docRows
    /\ UNCHANGED <<kbRows, docCount, chunkRows, index, proc, started, call, cache>>

\* ------------------------------------------------ DELETE knowledge/[id] ----
KbDeleteStart(s, u, k) ==
    /\ req[s].kind = "idle"
    /\ started < MaxRequests
    /\ started' = started + 1
    /\ req' = [req EXCEPT ![s] =
          IF AccessCheck(u, k) = "ok"
          THEN [Idle EXCEPT !.kind = "kbDelete", !.pc = "query", !.kb = k]
          ELSE [Idle EXCEPT !.kind = "kbDelete", !.pc = "done", !.resp = AccessCheck(u, k)]]
    /\ UNCHANGED <<kbRows, docRows, docCount, chunkRows, index, proc, call, cache>>

\* index.query with the knowledgeBaseId filter, a zero vector and topK
\* 10000: the ids of at most topK vectors of the knowledge base
QueryIdsByKnowledgeBase(idx, k) ==
    LET all == {v.id : v \in {w \in idx : w.knowledgeBaseId = k}}
    IN  IF Cardinality(all) <= DeleteQueryTopK THEN all
        ELSE CHOOSE S \in SUBSET all : Cardinality(S) = DeleteQueryTopK

\* deleteVectorsByKnowledgeBase, the query: a failure is logged and
\* swallowed by the adapter itself
KbDeleteQuery(s) ==
    /\ req[s].kind = "kbDelete" /\ req[s].pc = "query"
    /\ \E ok \in BOOLEAN :
         req' = IF ~ok THEN [req EXCEPT ![s].pc = "chunks", ![s].vec = "swallowed"]
                ELSE IF QueryIdsByKnowledgeBase(index, req[s].kb) = {}
                THEN [req EXCEPT ![s].pc = "chunks", ![s].vec = "ok"]
                ELSE [req EXCEPT ![s].pc = "deleteIds",
                                 ![s].ids = QueryIdsByKnowledgeBase(index, req[s].kb)]
    /\ UNCHANGED <<kbRows, docRows, docCount, chunkRows, index, proc, started, call, cache>>

\* index.deleteMany(vectorIds)
deleteManyByIds(idx, ids) == {v \in idx : v.id \notin ids}

KbDeleteVectors(s) ==
    /\ req[s].kind = "kbDelete" /\ req[s].pc = "deleteIds"
    /\ \E ok \in BOOLEAN :
         /\ index' = IF ok THEN deleteManyByIds(index, req[s].ids) ELSE index
         /\ req' = [req EXCEPT ![s].pc = "chunks", ![s].ids = {},
                               ![s].vec = IF ok THEN "ok" ELSE "swallowed"]
    /\ UNCHANGED <<kbRows, docRows, docCount, chunkRows, proc, started, call, cache>>

\* deleteKnowledgeBase, second statement:
\*   DELETE FROM DocumentChunk WHERE documentId = (SELECT id FROM RAGDocument
\*                                                 WHERE knowledgeBaseId = id)
\* A scalar subquery that yields two or more rows is an error once it is
\* evaluated; over an empty DocumentChunk table the plan decides whether
\* it is evaluated at all.  No row yields NULL, which matches nothing.
\* The outcomes: "error", or the set of documents whose chunks go.
ScalarSubqueryOutcomes(docs, chunks, k) ==
    LET ds == DocsOfKb(docs, k)
    IN  IF Cardinality(ds) >= 2
        THEN IF chunks = {} THEN {"error", "none"} ELSE {"error"}
        ELSE IF ds = {} THEN {"none"} ELSE {"one"}

KbDeleteChunks(s) ==
    /\ req[s].kind = "kbDelete" /\ req[s].pc = "chunks"
    /\ \E o \in ScalarSubqueryOutcomes(docRows, chunkRows, req[s].kb) :
         /\ chunkRows' =
              IF o = "one"
              THEN chunkRows \ {c \in chunkRows : c.documentId \in DocsOfKb(docRows, req[s].kb)}
              ELSE chunkRows
         /\ req' = IF o = "error" THEN Finish(s, "error")
                   ELSE [req EXCEPT ![s].pc = "docs"]
    /\ UNCHANGED <<kbRows, docRows, docCount, index, proc, started, call, cache>>

\* third statement: DELETE FROM RAGDocument WHERE knowledgeBaseId = id
KbDeleteDocs(s) ==
    /\ req[s].kind = "kbDelete" /\ req[s].pc = "docs"
    /\ IF DeleteDocRowsAllowed(chunkRows, DocsOfKb(docRows, req[s].kb))
       THEN /\ docRows' = RemoveRows(docRows, DocsOfKb(docRows, req[s].kb))
            /\ req' = [req EXCEPT ![s].pc = "row"]
       ELSE /\ req' = Finish(s, "error")
            /\ UNCHANGED docRows
    /\ UNCHANGED <<kbRows, docCount, chunkRows, index, proc, started, call, cache>>

\* fourth statement: DELETE FROM KnowledgeBase, refused by the foreign key
\* of RAGDocument while a document row points at the knowledge base
KbDeleteRow(s) ==
    /\ req[s].kind = "kbDelete" /\ req[s].pc = "row"
    /\ IF DocsOfKb(docRows, req[s].kb) = {}
       THEN /\ kbRows' = [k \in DOMAIN kbRows \ {req[s].kb} |-> kbRows[k]]
            /\ req' = Finish(s, "ok")
       ELSE /\ req' = Finish(s, "error")
            /\ UNCHANGED kbRows
    /\ UNCHANGED <<docRows, docCount, chunkRows, index, proc, started, call, cache>>

\* ------------------------------------- POST documents/[docId]/reprocess ----
ReprocessStart(s, u, k, d) ==
    /\ req[s].kind = "idle"
    /\ started < MaxRequests
    /\ started' = started + 1
    /\ d <= docCount
    /\ req' = [req EXCEPT ![s] =
          IF AccessCheck(u, k) = "ok"
          THEN [Idle EXCEPT !.kind = "reprocess", !.pc = "getdoc", !.kb = k, !.doc = d]
          ELSE [Idle EXCEPT !.kind = "reprocess", !.pc = "done", !.resp = AccessCheck(u, k)]]
    /\ UNCHANGED <<kbRows, docRows, docCount, chunkRows, index, proc, call, cache>>

\* a faulty variant of ReprocessAllowed that accepts every status
ReprocessAllowedAlways(status) == TRUE

\* only a failed document may be reprocessed
ReprocessAllowed(status) == status = "failed"

ReprocessGetDocument(s) ==
    /\ req[s].kind = "reprocess" /\ req[s].pc = "getdoc"
    /\ req' = IF DocumentCheck(req[s].kb, req[s].doc) # "ok"
              THEN Finish(s, DocumentCheck(req[s].kb, req[s].doc))
              ELSE IF ~ReprocessAllowed(docRows[req[s].doc].status)
              THEN Finish(s, "bad_request")
              ELSE [req EXCEPT ![s].pc = "update"]
    /\ UNCHANGED <<kbRows, docRows, docCount, chunkRows, index, proc, started, call, cache>>

\* updateRAGDocumentStatus(processing, undefined); no processing is
\* started (the route's TODO)
ReprocessUpdate(s) ==
    /\ req[s].kind = "reprocess" /\ req[s].pc = "update"
    /\ docRows' = updateRAGDocumentStatus(docRows, req[s].doc, "processing", Undefined)
    /\ req' = Finish(s, "ok")
    /\ UNCHANGED <<kbRows, docCount, chunkRows, index, proc, started, call, cache>>

\* --------------------------------------------- POST knowledge/[id]/search ----
\* Similarity scores are whole numbers here; 0 is the score JavaScript
\* treats as false.  A threshold is a fraction <<numerator, denominator>>.
Scores == 0..2
TopKs == {1}
MinScores == {1}
MaxTokensSet == {4, 7}
DiversityThreshold == <<17, 20>>

Min(a, b) == IF a <= b THEN a ELSE b

\* a faulty variant of MatchesFilter that lets every vector pass
MatchesAnything(v, k) == TRUE

\* the filter {knowledgeBaseId: {$eq: knowledgeBaseId}} of index.query
MatchesFilter(v, k) == v.knowledgeBaseId = k

\* index.query: the topK best scoring vectors that pass the filter, best
\* first; the order of equal scores is the index's choice
IndexQuery(idx, sc, k, topK) ==
    LET cands == {v \in idx : MatchesFilter(v, k)}
        n     == Min(topK, Cardinality(cands))
    IN  {m \in [1..n -> cands] :
            /\ \A i, j \in 1..n : i < j => m[i] # m[j] /\ sc[m[i].id] >= sc[m[j].id]
            /\ \A v \in cands \ Range(m) : \A i \in 1..n : sc[m[i].id] >= sc[v.id]}

RECURSIVE InsertDesc(_, _, _)
InsertDesc(p, i, keys) ==
    IF p = << >> THEN <<i>>
    ELSE IF keys[Head(p)] >= keys[i] THEN <<Head(p)>> \o InsertDesc(Tail(p), i, keys)
    ELSE <<i>> \o p

RECURSIVE SortedIndices(_, _)
\* Array.prototype.sort((a, b) => b.key - a.key): stable, highest key first
SortedIndices(n, keys) ==
    IF n = 0 THEN << >> ELSE InsertDesc(SortedIndices(n - 1, keys), n, keys)

\* the results left in the order the index returned them
SortDescLeftUnsorted(seq, keys) == seq

SortDesc(seq, keys) == [i \in 1..Len(seq) |-> seq[SortedIndices(Len(seq), keys)[i]]]

\* match.score && match.score >= minScore
ScorePasses(score, minScore) == score # 0 /\ score >= minScore

\* queryVectors, after index.query: filter by score, map, sort
queryVectors(matches, sc, minScore) ==
    LET kept == SelectSeq([i \in 1..Len(matches) |->
                             [id |-> matches[i].id, score |-> sc[matches[i].id],
                              metadata |-> matches[i]]],
                          LAMBDA r : ScorePasses(r.score, minScore))
    IN  SortDesc(kept, [i \in 1..Len(kept) |-> kept[i].score])

\* content.toLowerCase().split(/\s+/): the empty string splits into [""]
WordSet(content) == IF content = << >> THEN {""} ELSE Range(content)

\* calculateContentSimilarity as the fraction <<|intersection|, |union|>>
calculateContentSimilarity(content1, content2) ==
    <<Cardinality(WordSet(content1) \cap WordSet(content2)),
      Cardinality(WordSet(content1) \cup WordSet(content2))>>

\* the comparison the other way round
ExceedsThresholdInverted(sim, threshold) == sim[1] * threshold[2] < threshold[1] * sim[2]

ExceedsThreshold(sim, threshold) == sim[1] * threshold[2] > threshold[1] * sim[2]

RECURSIVE DiverseUpTo(_, _, _)
\* the list `diverse` after the loop has looked at results[1..n]
DiverseUpTo(results, n, threshold) ==
    IF n = 1 THEN <<results[1]>>
    ELSE LET diverse == DiverseUpTo(results, n - 1, threshold)
             isDiverse == \A j \in 1..Len(diverse) :
                 ~ExceedsThreshold(
                     calculateContentSimilarity(results[n].metadata.content,
                                                diverse[j].metadata.content),
                     threshold)
         IN  IF isDiverse THEN Append(diverse, results[n]) ELSE diverse

applyDiversityFilter(results, threshold) ==
    IF Len(results) <= 1 THEN results
    ELSE DiverseUpTo(results, Len(results), threshold)

\* getDocumentChunksByPineconeIds
getDocumentChunksByPineconeIds(rows, pineconeIds) ==
    {c \in rows : c.pineconeId \in pineconeIds}

\* a faulty variant of enrichedChunks that stops at the first result for
\* which no chunk row is found
enrichedChunksUntilGap(diverse, dbChunks, docs) ==
    LET found(i) == {c \in dbChunks : c.pineconeId = diverse[i].id}
        row(i)   == CHOOSE c \in found(i) : TRUE
        hit      == SelectSeq([i \in 1..Len(diverse) |-> i],
                              LAMBDA i : \A j \in 1..i : found(j) # {})
    IN  [j \in 1..Len(hit) |->
            [id         |-> row(hit[j]).id,
             content    |-> row(hit[j]).content,
             fileName   |-> diverse[hit[j]].metadata.fileName,
             chunkIndex |-> row(hit[j]).chunkIndex,
             similarity |-> diverse[hit[j]].score,
             tokenCount |-> row(hit[j]).tokenCount,
             knowledgeBaseId |-> docs[row(hit[j]).documentId].knowledgeBaseId]]

\* the join of the surviving results with the chunk rows; a result without
\* a row is dropped.  knowledgeBaseId is not part of the response: it
\* records, for the row that was read, the knowledge base of its document.
enrichedChunks(diverse, dbChunks, docs) ==
    LET found(i) == {c \in dbChunks : c.pineconeId = diverse[i].id}
        row(i)   == CHOOSE c \in found(i) : TRUE
        hit      == SelectSeq([i \in 1..Len(diverse) |-> i], LAMBDA i : found(i) # {})
    IN  [j \in 1..Len(hit) |->
            [id         |-> row(hit[j]).id,
             content    |-> row(hit[j]).content,
             fileName   |-> diverse[hit[j]].metadata.fileName,
             chunkIndex |-> row(hit[j]).chunkIndex,
             similarity |-> diverse[hit[j]].score,
             tokenCount |-> row(hit[j]).tokenCount,
             knowledgeBaseId |-> docs[row(hit[j]).documentId].knowledgeBaseId]]

RECURSIVE TokenLimitUpTo(_, _, _)
\* <<result, totalTokens>> after the loop has looked at sorted[1..n]
TokenLimitUpTo(sorted, n, maxTokens) ==
    IF n = 0 THEN << << >>, 0 >>
    ELSE LET prev == TokenLimitUpTo(sorted, n - 1, maxTokens)
         IN  IF prev[2] + sorted[n].tokenCount <= maxTokens
             THEN <<Append(prev[1], sorted[n]), prev[2] + sorted[n].tokenCount>>
             ELSE prev

RECURSIVE TokenLimitUntilFull(_, _, _)
\* <<result, totalTokens, full>> of a loop that stops at the first chunk
\* that does not fit
TokenLimitUntilFull(sorted, n, maxTokens) ==
    IF n = 0 THEN << << >>, 0, FALSE >>
    ELSE LET prev == TokenLimitUntilFull(sorted, n - 1, maxTokens)
         IN  IF prev[3] THEN prev
             ELSE IF prev[2] + sorted[n].tokenCount <= maxTokens
             THEN <<Append(prev[1], sorted[n]), prev[2] + sorted[n].tokenCount, FALSE>>
             ELSE <<prev[1], prev[2], TRUE>>

\* a token limit that ends the loop at the first chunk that does not fit
applyTokenLimitStopsWhenFull(chunks, maxTokens) ==
    LET sortedChunks == SortDesc(chunks, [i \in 1..Len(chunks) |-> chunks[i].similarity])
    IN  TokenLimitUntilFull(sortedChunks, Len(sortedChunks), maxTokens)[1]

\* a token limit that admits every chunk, in sorted order
applyTokenLimitAdmitsAll(chunks, maxTokens) ==
    SortDesc(chunks, [i \in 1..Len(chunks) |-> chunks[i].similarity])

applyTokenLimit(chunks, maxTokens) ==
    LET sortedChunks == SortDesc(chunks, [i \in 1..Len(chunks) |-> chunks[i].similarity])
    IN  TokenLimitUpTo(sortedChunks, Len(sortedChunks), maxTokens)[1]

RECURSIVE SumTokens(_)
SumTokens(chunks) ==
    IF chunks = << >> THEN 0 ELSE Head(chunks).tokenCount + SumTokens(Tail(chunks))

RECURSIVE FileNamesInOrder(_)
\* the keys of sourceMap in insertion order
FileNamesInOrder(chunks) ==
    IF chunks = << >> THEN << >>
    ELSE LET front == FileNamesInOrder(SubSeq(chunks, 1, Len(chunks) - 1))
             name  == chunks[Len(chunks)].fileName
         IN  IF name \in Range(front) THEN front ELSE Append(front, name)

generateSourceSummary(chunks) ==
    LET names  == FileNamesInOrder(chunks)
        count(f) == Cardinality({i \in 1..Len(chunks) : chunks[i].fileName = f})
        entries == [i \in 1..Len(names) |-> [fileName |-> names[i], chunks |-> count(names[i])]]
    IN  SortDesc(entries, [i \in 1..Len(entries) |-> entries[i].chunks])

\* retrieveRelevantContext from the diversity filter on
buildContext(results, rows, docs, maxTokens) ==
    LET diverseResults == applyDiversityFilter(results, DiversityThreshold)
        pineconeIds    == {diverseResults[i].id : i \in 1..Len(diverseResults)}
        dbChunks       == getDocumentChunksByPineconeIds(rows, pineconeIds)
        filteredChunks == applyTokenLimit(enrichedChunks(diverseResults, dbChunks, docs),
                                          maxTokens)
    IN  [chunks      |-> filteredChunks,
         totalTokens |-> SumTokens(filteredChunks),
         sources     |-> generateSourceSummary(filteredChunks)]

SearchStart(s, u, k, topK, minScore, maxTokens) ==
    /\ req[s].kind = "idle"
    /\ started < MaxRequests
    /\ started' = started + 1
    /\ req' = [req EXCEPT ![s] =
          IF AccessCheck(u, k) = "ok"
          THEN [Idle EXCEPT !.kind = "search", !.pc = "query", !.kb = k,
                            !.options = [topK |-> topK, minScore |-> minScore,
                                         maxTokens |-> maxTokens]]
          ELSE [Idle EXCEPT !.kind = "search", !.pc = "done", !.resp = AccessCheck(u, k)]]
    /\ UNCHANGED <<kbRows, docRows, docCount, chunkRows, index, proc, call, cache>>

\* generateQueryEmbedding and queryVectors with topK * 2; the scores are
\* the similarity of the query to each stored vector
RetrieveQuery(s) ==
    /\ req[s].kind = "search" /\ req[s].pc = "query"
    /\ \/ req' = Finish(s, "error")
       \/ \E sc \in [{v.id : v \in index} -> Scores] :
            \E matches \in IndexQuery(index, sc, req[s].kb, req[s].options.topK * 2) :
              LET vectorResults == queryVectors(matches, sc, req[s].options.minScore)
              IN  req' = IF Len(vectorResults) = 0
                         THEN [Finish(s, "ok") EXCEPT ![s].context = NoContext]
                         ELSE [req EXCEPT ![s].pc = "join", ![s].scores = sc,
                                          ![s].results = vectorResults]
    /\ UNCHANGED <<kbRows, docRows, docCount, chunkRows, index, proc, started, call, cache>>

\* a faulty variant of RetrieveJoin that removes from the index the vectors
\* of the results for which it found no chunk row
RetrieveJoinRemovesUnmatched(s) ==
    /\ req[s].kind = "search" /\ req[s].pc = "join"
    /\ \/ /\ req' = Finish(s, "error")
          /\ UNCHANGED index
       \/ /\ req' = [Finish(s, "ok") EXCEPT
                       ![s].scores = << >>, ![s].results = << >>,
                       ![s].context = buildContext(req[s].results, chunkRows, docRows,
                                                   req[s].options.maxTokens)]
          /\ index' = {v \in index :
                          \/ \A i \in 1..Len(req[s].results) : req[s].results[i].id # v.id
                          \/ \E c \in chunkRows : c.pineconeId = v.id}
    /\ UNCHANGED <<kbRows, docRows, docCount, chunkRows, proc, started, call, cache>>

\* getDocumentChunksByPineconeIds and the rest of retrieveRelevantContext
RetrieveJoin(s) ==
    /\ req[s].kind = "search" /\ req[s].pc = "join"
    /\ \/ req' = Finish(s, "error")
       \/ req' = [Finish(s, "ok") EXCEPT
                    ![s].scores = << >>, ![s].results = << >>,
                    ![s].context = buildContext(req[s].results, chunkRows, docRows,
                                                req[s].options.maxTokens)]
    /\ UNCHANGED <<kbRows, docRows, docCount, chunkRows, index, proc, started, call, cache>>

\* the response is sent and the slot is free again
Respond(s) ==
    /\ req[s].pc = "done"
    /\ req' = [req EXCEPT ![s] = Idle]
    /\ UNCHANGED <<kbRows, docRows, docCount, chunkRows, index, proc, started, call, cache>>

Next ==
    \/ \E s \in Slots, u \in Users, k \in KBIds, f \in Files : UploadStart(s, u, k, f)
    \/ \E s \in Slots : UploadCheckLimit(s)
    \/ \E s \in Slots : UploadPut(s)
    \/ \E s \in Slots : UploadSave(s)
    \/ \E d \in DocIds : ProcStep(d)
    \/ \E s \in Slots, u \in Users, k \in KBIds, d \in DocIds : DocDeleteStart(s, u, k, d)
    \/ \E s \in Slots : DocDeleteGetDocument(s)
    \/ \E s \in Slots : DocDeleteVectors(s)
    \/ \E s \in Slots : DocDeleteChunks(s)
    \/ \E s \in Slots : DocDeleteRow(s)
    \/ \E s \in Slots, u \in Users, k \in KBIds : KbDeleteStart(s, u, k)
    \/ \E s \in Slots : KbDeleteQuery(s)
    \/ \E s \in Slots : KbDeleteVectors(s)
    \/ \E s \in Slots : KbDeleteChunks(s)
    \/ \E s \in Slots : KbDeleteDocs(s)
    \/ \E s \in Slots : KbDeleteRow(s)
    \/ \E s \in Slots, u \in Users, k \in KBIds, d \in DocIds : ReprocessStart(s, u, k, d)
    \/ \E s \in Slots : ReprocessGetDocument(s)
    \/ \E s \in Slots : ReprocessUpdate(s)
    \/ \E s \in Slots, u \in Users, k \in KBIds, topK \in TopKs,
          minScore \in MinScores, maxTokens \in MaxTokensSet :
            SearchStart(s, u, k, topK, minScore, maxTokens)
    \/ \E s \in Slots : RetrieveQuery(s)
    \/ \E s \in Slots : RetrieveJoin(s)
    \/ \E s \in Slots : Respond(s)

Spec == Init /\ [][Next]_vars

\* ===================================================== library calls ====
\* LibSpec: the retrieval functions and generateEmbeddings called on their
\* own, one call in a run, on every input up to the bounds.  The stores and
\* the requests stay as they are at the start.
StoresUnchanged ==
    UNCHANGED <<kbRows, docRows, docCount, chunkRows, index, proc, req, started, cache>>

SeqsUpTo(S, n) == UNION {[1..k -> S] : k \in 0..n}

\* contents with Jaccard similarity 1/3, 1/2, 2/3 and 1 among them
Contents == {<<"alpha">>, <<"alpha", "beta">>, <<"alpha", "beta", "gamma">>}
Thresholds == {<<1, 2>>, DiversityThreshold, <<1, 1>>}
LibMinScores == 0..2
TokenCounts == 0..3
LibMaxTokens == 0..4
Candidates == [content : Contents, score : Scores]
TokenChunks == [tokenCount : TokenCounts, similarity : Scores]

\* applyTokenLimit and the totalTokens retrieveRelevantContext reports
CallApplyTokenLimit ==
    /\ call = NoCall
    /\ \E chunks \in SeqsUpTo(TokenChunks, MaxCandidates), maxTokens \in LibMaxTokens :
         call' = [fn |-> "applyTokenLimit", chunks |-> chunks, maxTokens |-> maxTokens,
                  result |-> applyTokenLimit(chunks, maxTokens),
                  totalTokens |-> SumTokens(applyTokenLimit(chunks, maxTokens))]
    /\ StoresUnchanged

\* queryVectors on the matches the index returned (in any order), then
\* applyDiversityFilter on its result, as retrieveRelevantContext does
CallQueryAndFilter ==
    /\ call = NoCall
    /\ \E cands \in SeqsUpTo(Candidates, MaxCandidates), minScore \in LibMinScores,
          threshold \in Thresholds :
         LET matches == [i \in 1..Len(cands) |-> [id |-> i, content |-> cands[i].content]]
             sc      == [i \in 1..Len(cands) |-> cands[i].score]
             results == queryVectors(matches, sc, minScore)
         IN  call' = [fn |-> "queryAndFilter", cands |-> cands, minScore |-> minScore,
                      threshold |-> threshold, results |-> results,
                      diverse |-> applyDiversityFilter(results, threshold)]
    /\ StoresUnchanged

\* ------------------------------------------------ generateEmbeddings ----
Texts == {<<"alpha", "beta">>, <<"gamma">>, << >>}
BatchSizes == {1, 2, DefaultBatchSize}

\* a faulty variant of PromiseAllValues: the values as the calls completed
ValuesInCompletionOrder(values, first, last, order) ==
    [k \in 1..(last - first + 1) |-> values[order[k]]]

\* Promise.all: the value of the k-th promise is the k-th value
PromiseAllValues(values, first, last, order) ==
    [k \in 1..(last - first + 1) |-> values[first + k - 1]]

\* the batch texts.slice(i, i + batchSize) as the positions first..last
BatchLast(texts, first, batchSize) == Min(first + batchSize - 1, Len(texts))

\* generateEmbeddings is called: no text, no call; else the calls of the
\* first batch are all started
EmbedStart ==
    /\ call = NoCall
    /\ \E texts \in SeqsUpTo(Texts, MaxTexts), batchSize \in BatchSizes :
         call' = [fn |-> "generateEmbeddings", texts |-> texts, batchSize |-> batchSize,
                  status |-> IF texts = << >> THEN "resolved" ELSE "running",
                  first |-> 1,
                  pending |-> 1..BatchLast(texts, 1, batchSize),
                  values |-> << >>, order |-> << >>, embeddings |-> << >>]
    /\ StoresUnchanged

\* generateEmbedding of an empty text throws before it calls the provider
EmbeddingCanSucceed(text) == text # << >>

\* the call of position j of the running batch settles.  A rejection
\* rejects Promise.all and, through the catch block, generateEmbeddings;
\* the last fulfilment of the batch pushes the batch's values and starts the
\* next batch or returns.
EmbedSettle(j) ==
    /\ call.fn = "generateEmbeddings" /\ call.status = "running"
    /\ j \in call.pending
    /\ \E ok \in BOOLEAN :
         LET last   == BatchLast(call.texts, call.first, call.batchSize)
             values == [p \in DOMAIN call.values \cup {j} |->
                          IF p = j THEN generateEmbedding(call.texts[j]) ELSE call.values[p]]
             order  == Append(call.order, j)
             all    == call.embeddings \o PromiseAllValues(values, call.first, last, order)
         IN  call' =
               IF ~(ok /\ EmbeddingCanSucceed(call.texts[j]))
               THEN [call EXCEPT !.status = "rejected", !.pending = {}, !.values = << >>,
                                 !.order = order, !.embeddings = << >>]
               ELSE IF call.pending # {j}
               THEN [call EXCEPT !.pending = @ \ {j}, !.values = values, !.order = order]
               ELSE IF last = Len(call.texts)
               THEN [call EXCEPT !.status = "resolved", !.pending = {}, !.values = << >>,
                                 !.order = order, !.embeddings = all]
               ELSE [call EXCEPT !.first = last + 1,
                                 !.pending = (last + 1)..BatchLast(call.texts, last + 1, call.batchSize),
                                 !.values = << >>, !.order = << >>, !.embeddings = all]
    /\ StoresUnchanged

\* ------------------------------------------ splitIntoChunks, the spans ----
\* Lengths count units of 200 characters: chunkSize 5 and chunkOverlap 1 are
\* the defaults 1000 and 200; chunkOverlap 2 lets a chunk be shorter than
\* the overlap.
ChunkSizes == {2, 5}
ChunkOverlaps == {0, 1, 2}

RECURSIVE SumSeq(_)
SumSeq(seq) == IF seq = << >> THEN 0 ELSE Head(seq) + SumSeq(Tail(seq))

\* splitter.splitText(text): the chunks the library cuts a text into, each
\* known by its length (lens) and by the characters it shares with the
\* chunk before it (ov).  A chunk is not empty and not longer than chunkSize,
\* shares at most chunkOverlap characters with its neighbour, and two
\* neighbours were too long to be one chunk.  The text is what the chunks
\* cover; how many characters neighbours share depends on where the text has
\* its separators.
SplitterOutputs(chunkSize, chunkOverlap) ==
    {o \in UNION {[lens : [1..n -> 1..chunkSize], ov : [1..(n - 1) -> 0..chunkOverlap]]
                    : n \in 1..MaxPieces} :
        \A i \in 1..(Len(o.lens) - 1) :
            /\ o.ov[i] < o.lens[i] /\ o.ov[i] < o.lens[i + 1]
            /\ o.lens[i] + o.lens[i + 1] - o.ov[i] > chunkSize}

\* text.length
TextLength(o) == SumSeq(o.lens) - SumSeq(o.ov)

RECURSIVE documentChunksNoOverlap(_, _)
\* a faulty variant of documentChunks: currentIndex = endIndex
documentChunksNoOverlap(lens, chunkOverlap) ==
    IF lens = << >> THEN << >>
    ELSE LET before == documentChunksNoOverlap(SubSeq(lens, 1, Len(lens) - 1), chunkOverlap)
             currentIndex == IF before = << >> THEN 0 ELSE before[Len(before)].endIndex
         IN  Append(before, [chunkIndex |-> Len(lens) - 1,
                             startIndex |-> currentIndex,
                             endIndex   |-> currentIndex + lens[Len(lens)]])

RECURSIVE documentChunks(_, _)
\* the loop of splitIntoChunks over the chunks of the splitter:
\* startIndex = currentIndex, endIndex = startIndex + chunk.length,
\* currentIndex = endIndex - chunkOverlap
documentChunks(lens, chunkOverlap) ==
    IF lens = << >> THEN << >>
    ELSE LET before == documentChunks(SubSeq(lens, 1, Len(lens) - 1), chunkOverlap)
             currentIndex == IF before = << >> THEN 0
                             ELSE before[Len(before)].endIndex - chunkOverlap
         IN  Append(before, [chunkIndex |-> Len(lens) - 1,
                             startIndex |-> currentIndex,
                             endIndex   |-> currentIndex + lens[Len(lens)]])

\* splitIntoChunks on a non-blank text
CallSplitIntoChunks ==
    /\ call = NoCall
    /\ \E chunkSize \in ChunkSizes, chunkOverlap \in ChunkOverlaps :
         \E o \in SplitterOutputs(chunkSize, chunkOverlap) :
            call' = [fn |-> "splitIntoChunks", chunkSize |-> chunkSize,
                     chunkOverlap |-> chunkOverlap, chunks |-> o,
                     textLength |-> TextLength(o),
                     documentChunks |-> documentChunks(o.lens, chunkOverlap)]
    /\ StoresUnchanged

\* ------------------------------------------------------------- cache ----
\* what the fallback of a getCached call can do each time it is called: return
\* the rows as they are then, or throw
FallbackResults == {"rows1", "rows2", "throw"}

\* what redis holds under the key: nothing, or a value stored earlier
CachedValues == {Null, "stored"}

LastOf(seq) == seq[Len(seq)]

\* getCached is called; redis is null when the cache is not configured
GetCachedStart ==
    /\ call = NoCall
    /\ \E redis \in BOOLEAN, cached \in CachedValues :
         call' = [fn |-> "getCached", redis |-> redis, cached |-> cached,
                  pc |-> IF redis THEN "get" ELSE "noredis",
                  failed |-> FALSE, fallbacks |-> << >>, data |-> Null, result |-> Null]
    /\ StoresUnchanged

\* return fallback(), the last thing getCached does on two of its paths
ReturnFallback(c, r) ==
    [c EXCEPT !.fallbacks = Append(@, r),
              !.pc = IF r = "throw" THEN "threw" ELSE "returned",
              !.result = IF r = "throw" THEN Null ELSE r]

\* if (!redis) return fallback()
GetCachedNoRedis ==
    /\ call.fn = "getCached" /\ call.pc = "noredis"
    /\ \E r \in FallbackResults : call' = ReturnFallback(call, r)
    /\ StoresUnchanged

\* a faulty variant of OnCacheError: no try block around the cache calls
OnCacheErrorThrows(c) == [c EXCEPT !.pc = "threw", !.failed = TRUE]

\* a cache operation throws inside the try block
OnCacheError(c) == [c EXCEPT !.pc = "catch", !.failed = TRUE]

\* redis.get(key) and the test of what it returned
GetCachedGet ==
    /\ call.fn = "getCached" /\ call.pc = "get"
    /\ \E ok \in BOOLEAN :
         call' = IF ~ok THEN OnCacheError(call)
                 ELSE IF call.cached # Null
                 THEN [call EXCEPT !.pc = "returned", !.result = call.cached]
                 ELSE [call EXCEPT !.pc = "fallback"]
    /\ StoresUnchanged

\* data = await fallback(), inside the try block
GetCachedFallback ==
    /\ call.fn = "getCached" /\ call.pc = "fallback"
    /\ \E r \in FallbackResults :
         call' = IF r = "throw"
                 THEN [call EXCEPT !.fallbacks = Append(@, r), !.pc = "catch"]
                 ELSE [call EXCEPT !.fallbacks = Append(@, r), !.pc = "setex", !.data = r]
    /\ StoresUnchanged

\* redis.setex(key, ttl, JSON.stringify(data)); return data
GetCachedSetex ==
    /\ call.fn = "getCached" /\ call.pc = "setex"
    /\ \E ok \in BOOLEAN :
         call' = IF ok THEN [call EXCEPT !.pc = "returned", !.result = call.data]
                 ELSE OnCacheError(call)
    /\ StoresUnchanged

\* the catch block: return fallback()
GetCachedCatch ==
    /\ call.fn = "getCached" /\ call.pc = "catch"
    /\ \E r \in FallbackResults : call' = ReturnFallback(call, r)
    /\ StoresUnchanged

\* invalidateCache is called
InvalidateCacheStart ==
    /\ call = NoCall
    /\ \E redis \in BOOLEAN :
         call' = [fn |-> "invalidateCache", redis |-> redis,
                  pc |-> IF redis THEN "keys" ELSE "returned", failed |-> FALSE,
                  deleted |-> FALSE]
    /\ StoresUnchanged

\* the catch block of invalidateCache logs and returns
OnInvalidateError(c) == [c EXCEPT !.pc = "returned", !.failed = TRUE]

\* redis.keys(pattern)
InvalidateCacheKeys ==
    /\ call.fn = "invalidateCache" /\ call.pc = "keys"
    /\ \E ok \in BOOLEAN, found \in BOOLEAN :
         call' = IF ~ok THEN OnInvalidateError(call)
                 ELSE [call EXCEPT !.pc = IF found THEN "del" ELSE "returned"]
    /\ StoresUnchanged

\* redis.del(...keys)
InvalidateCacheDel ==
    /\ call.fn = "invalidateCache" /\ call.pc = "del"
    /\ \E ok \in BOOLEAN :
         call' = IF ok THEN [call EXCEPT !.pc = "returned", !.deleted = TRUE]
                 ELSE OnInvalidateError(call)
    /\ StoresUnchanged

LibNext ==
    \/ CallApplyTokenLimit
    \/ CallQueryAndFilter
    \/ EmbedStart
    \/ \E j \in 1..MaxTexts : EmbedSettle(j)
    \/ CallSplitIntoChunks
    \/ GetCachedStart
    \/ GetCachedNoRedis
    \/ GetCachedGet
    \/ GetCachedFallback
    \/ GetCachedSetex
    \/ GetCachedCatch
    \/ InvalidateCacheStart
    \/ InvalidateCacheKeys
    \/ InvalidateCacheDel

LibSpec == Init /\ [][LibNext]_vars

\* ========================================== pipelines side by side ====
\* PipeSpec: every document has just been uploaded, one after the other, and
\* the pipelines started for them run side by side in any interleaving; no
\* other request is made.
PipeInit ==
    /\ kbRows = [k \in KBIds |-> [userId |-> OwnerAtStart(k)]]
    /\ \E kb \in [DocIds -> KBIds], file \in [DocIds -> Files] :
          /\ docRows = [d \in DocIds |->
                          saveRAGDocument(<< >>, d, kb[d], file[d], "processing")[d]]
          /\ proc = [d \in DocIds |-> processDocumentAsyncStarted(file[d])]
    /\ docCount = MaxDocs
    /\ chunkRows = {}
    /\ index = {}
    /\ req = [s \in Slots |-> Idle]
    /\ started = 0
    /\ call = NoCall
    /\ cache = NoCache

PipeNext == \E d \in DocIds : ProcStep(d)

PipeSpec == PipeInit /\ [][PipeNext]_vars

\* ========================================= concurrent upload requests ====
\* POST /api/knowledge/[id]/documents with a list of files, for several
\* requests at a time on knowledge bases that are close to their document
\* limit.  The pipelines the requests start are left standing at their first
\* await: no step of a pipeline creates or removes a document row or a blob.
UploadSlots == 1..MaxUploads

MaxFileSize == 10485760   \* 10 * 1024 * 1024 bytes

AllowedMimeTypes ==
    {"text/plain",
     "application/vnd.openxmlformats-officedocument.wordprocessingml.document"}

\* allowedTypes of uploadAndProcessDocument, which still lists PDF
PipelineAllowedTypes == AllowedMimeTypes \cup {"application/pdf"}

\* file.name.trim() of each name used here
Trim(name) == IF name = "  " THEN "" ELSE name

UploadedFiles ==
    {[name |-> "guide.txt", type |-> "text/plain",      size |-> 2048],
     [name |-> "scan.pdf",  type |-> "application/pdf", size |-> 2048],
     [name |-> "big.txt",   type |-> "text/plain",      size |-> MaxFileSize + 1],
     [name |-> "  ",        type |-> "text/plain",      size |-> 2048]}

FileLists == SeqsUpTo(UploadedFiles, MaxFilesPerRequest)

\* the three checks of the validation loop of the route, for one file
RouteAccepts(file) ==
    /\ file.type \in AllowedMimeTypes
    /\ ~(file.size > MaxFileSize)
    /\ Trim(file.name) # ""

\* a faulty variant of validationErrors that looks at the first file only
validationErrorsFirstFileOnly(files) ==
    {i \in 1..Len(files) : i = 1 /\ ~RouteAccepts(files[i])}

\* the files for which the validation loop pushes at least one message
validationErrors(files) == {i \in 1..Len(files) : ~RouteAccepts(files[i])}

\* the checks at the head of uploadAndProcessDocument
PipelineAccepts(file) ==
    /\ file.type \in PipelineAllowedTypes
    /\ ~(file.size > MaxFileSize)

\* existingDocs.length + files.length > maxDocsPerKb
LimitExceeded(existing, files) == existing + Len(files) > MaxDocsPerKb

\* rows a knowledge base holds when the requests arrive
RowsAtStart == {MaxDocsPerKb - 2, MaxDocsPerKb - 1, MaxDocsPerKb}

UploadDocIds == 1..(MaxDocsPerKb + MaxUploads * MaxFilesPerRequest)

NoUpload == [kind |-> "idle", pc |-> "idle", user |-> "none", kb |-> "none", files |-> << >>,
             i |-> 0, existing |-> 0, blobs |-> << >>, results |-> << >>,
             errors |-> << >>, resp |-> "none"]

\* knowledge base A holds n documents whose download failed, B holds none
UploadInit ==
    /\ kbRows = [k \in KBIds |-> [userId |-> OwnerAtStart(k)]]
    /\ \E n \in RowsAtStart :
          /\ docRows = [d \in 1..n |->
                updateRAGDocumentStatus(
                    saveRAGDocument(<< >>, d, "A", "guide.txt", "processing"),
                    d, "failed", ErrFetch)[d]]
          /\ docCount = n
          /\ proc = [d \in UploadDocIds |->
                IF d <= n
                THEN [processDocumentAsyncStarted("guide.txt") EXCEPT
                         !.pc = "done", !.err = ErrFetch, !.rej = ErrFetch]
                ELSE NoProc]
    /\ chunkRows = {}
    /\ index = {}
    /\ req = [s \in UploadSlots |-> NoUpload]
    /\ started = 0
    /\ call = NoCall
    /\ cache = NoCache

\* getKnowledgeBaseById, the ownership check, formData, the check for an
\* empty list and the validation loop
PostStart(s) ==
    /\ req[s].kind = "idle"
    /\ \E u \in Users, k \in KBIds, files \in FileLists :
         req' = [req EXCEPT ![s] =
            IF AccessCheck(u, k) # "ok"
            THEN [NoUpload EXCEPT !.kind = "post", !.pc = "done", !.files = files,
                                  !.resp = AccessCheck(u, k)]
            ELSE IF Len(files) = 0
            THEN [NoUpload EXCEPT !.kind = "post", !.pc = "done", !.resp = "no_files"]
            ELSE IF validationErrors(files) # {}
            THEN [NoUpload EXCEPT !.kind = "post", !.pc = "done", !.files = files,
                                  !.resp = "validation_errors"]
            ELSE [NoUpload EXCEPT !.kind = "post", !.pc = "limit", !.user = u,
                                  !.kb = k, !.files = files]]
    /\ UNCHANGED <<kbRows, docRows, docCount, chunkRows, index, proc, started, call, cache>>

\* getRAGDocumentsByKnowledgeBaseId and the document limit
PostCheckLimit(s) ==
    /\ req[s].kind = "post" /\ req[s].pc = "limit"
    /\ LET existing == Cardinality(DocsOfKb(docRows, req[s].kb))
       IN  req' = [req EXCEPT ![s] =
              IF LimitExceeded(existing, req[s].files)
              THEN [@ EXCEPT !.pc = "done", !.existing = existing,
                             !.resp = "limit_exceeded"]
              ELSE [@ EXCEPT !.pc = "put", !.existing = existing, !.i = 1]]
    /\ UNCHANGED <<kbRows, docRows, docCount, chunkRows, index, proc, started, call, cache>>

\* the loop goes on to the next file; after the last file the cache is
\* invalidated if a document was saved, and the response is built
NextFile(r) ==
    IF r.i < Len(r.files) THEN [r EXCEPT !.pc = "put", !.i = r.i + 1]
    ELSE IF r.results # << >> THEN [r EXCEPT !.pc = "invalidate"]
    ELSE [r EXCEPT !.pc = "done", !.resp = "ok"]

\* uploadAndProcessDocument up to put(file.name, file); what it throws is
\* caught by the loop and pushed to errors
PostPut(s) ==
    /\ req[s].kind = "post" /\ req[s].pc = "put"
    /\ LET file == req[s].files[req[s].i]
       IN  \E ok \in BOOLEAN :
             req' = [req EXCEPT ![s] =
                IF PipelineAccepts(file) /\ ok
                THEN [@ EXCEPT !.pc = "save", !.blobs = Append(@, file.name)]
                ELSE NextFile([@ EXCEPT !.errors = Append(@, file.name)])]
    /\ UNCHANGED <<kbRows, docRows, docCount, chunkRows, index, proc, started, call, cache>>

\* saveRAGDocument, then processDocumentAsync is started and not awaited
PostSave(s) ==
    /\ req[s].kind = "post" /\ req[s].pc = "save"
    /\ LET file == req[s].files[req[s].i]
       IN  \E ok \in BOOLEAN :
             IF ok /\ SaveRAGDocumentAllowed(kbRows, req[s].kb)
             THEN /\ docCount' = docCount + 1
                  /\ docRows' = saveRAGDocument(docRows, docCount + 1, req[s].kb,
                                                file.name, "processing")
                  /\ proc' = [proc EXCEPT ![docCount + 1] =
                                 processDocumentAsyncStarted(file.name)]
                  /\ req' = [req EXCEPT ![s] =
                                NextFile([@ EXCEPT !.results = Append(@, docCount + 1)])]
             ELSE /\ req' = [req EXCEPT ![s] =
                                NextFile([@ EXCEPT !.errors = Append(@, file.name)])]
                  /\ UNCHANGED <<docRows, docCount, proc>>
    /\ UNCHANGED <<kbRows, chunkRows, index, started, call, cache>>

\* invalidateCache of the keys kb:user:<id>*, kb:<id> and docs:kb:<id>; of
\* these only the first is ever written
PostInvalidate(s) ==
    /\ req[s].kind = "post" /\ req[s].pc = "invalidate"
    /\ cache' = [cache EXCEPT ![req[s].user] = << >>]
    /\ req' = [req EXCEPT ![s].pc = "done", ![s].resp = "ok"]
    /\ UNCHANGED <<kbRows, docRows, docCount, chunkRows, index, proc, started, call>>

UploadNext ==
    \/ \E s \in UploadSlots : PostStart(s)
    \/ \E s \in UploadSlots : PostCheckLimit(s)
    \/ \E s \in UploadSlots : PostPut(s)
    \/ \E s \in UploadSlots : PostSave(s)
    \/ \E s \in UploadSlots : PostInvalidate(s)

UploadSpec == UploadInit /\ [][UploadNext]_vars

\* ====================================== statistics listings and the cache ====
\* GET /api/knowledge?include=stats through getCached, next to the changes
\* the listing has to show: the pipeline of a document just uploaded, one
\* document DELETE and one knowledge-base creation.  Redis is configured.
ListSlots == 1..MaxListing

\* the users who list: the owner of knowledge base A
ListUsers == {OwnerAtStart("A")}

\* the first query of getKnowledgeBasesWithStatsById: the knowledge bases of
\* the user, each with its document counts
getKnowledgeBasesWithStatsById(kbs, docs, u) ==
    [k \in {j \in DOMAIN kbs : kbs[j].userId = u} |->
        [totalDocs      |-> Cardinality(DocsOfKb(docs, k)),
         readyDocs      |-> Cardinality({d \in DocsOfKb(docs, k) : docs[d].status = "ready"}),
         processingDocs |-> Cardinality({d \in DocsOfKb(docs, k) : docs[d].status = "processing"}),
         failedDocs     |-> Cardinality({d \in DocsOfKb(docs, k) : docs[d].status = "failed"})]]

\* no pipeline runs and every request that changes something has built its
\* response
Quiet ==
    /\ Ingesting = {}
    /\ \A s \in ListSlots : req[s].kind \in {"idle", "list"} \/ req[s].pc = "done"

\* knowledge base A of user u1 holds document 1, just uploaded, and the
\* upload has invalidated the cache
StatsInit ==
    /\ kbRows = [k \in {"A"} |-> [userId |-> OwnerAtStart(k)]]
    /\ \E file \in Files :
          /\ docRows = saveRAGDocument(<< >>, 1, "A", file, "processing")
          /\ proc = [d \in DocIds |->
                       IF d = 1 THEN processDocumentAsyncStarted(file) ELSE NoProc]
    /\ docCount = 1
    /\ chunkRows = {}
    /\ index = {}
    /\ req = [s \in ListSlots |-> Idle]
    /\ started = 0
    /\ call = NoCall
    /\ cache = NoCache

\* GET with include=stats; quiet0 and started0 keep what the listing found in
\* progress when it started
ListStart(s, u) ==
    /\ req[s].kind = "idle"
    /\ req' = [req EXCEPT ![s] =
                 [kind |-> "list", pc |-> "get", user |-> u, quiet0 |-> Quiet,
                  started0 |-> started, data |-> << >>, resp |-> "none"]]
    /\ UNCHANGED <<kbRows, docRows, docCount, chunkRows, index, proc, started, call, cache>>

\* if (cached): a stored list is an object, so every stored value is a hit
CacheHit(cached) == cached # << >>

\* getCached: redis.get(key)
ListGet(s) ==
    /\ req[s].kind = "list" /\ req[s].pc = "get"
    /\ \E ok \in BOOLEAN :
         req' = IF ~ok THEN [req EXCEPT ![s].pc = "catch"]
                ELSE IF CacheHit(cache[req[s].user])
                THEN [req EXCEPT ![s].pc = "done", ![s].data = cache[req[s].user],
                                 ![s].resp = "ok"]
                ELSE [req EXCEPT ![s].pc = "fallback"]
    /\ UNCHANGED <<kbRows, docRows, docCount, chunkRows, index, proc, started, call, cache>>

\* getCached: data = await fallback(), the database query
ListFallback(s) ==
    /\ req[s].kind = "list" /\ req[s].pc = "fallback"
    /\ \E ok \in BOOLEAN :
         req' = IF ok
                THEN [req EXCEPT ![s].pc = "setex",
                                 ![s].data = <<getKnowledgeBasesWithStatsById(
                                                   kbRows, docRows, req[s].user)>>]
                ELSE [req EXCEPT ![s].pc = "catch"]
    /\ UNCHANGED <<kbRows, docRows, docCount, chunkRows, index, proc, started, call, cache>>

\* getCached: redis.setex(key, ttl, JSON.stringify(data)), return data
ListSetex(s) ==
    /\ req[s].kind = "list" /\ req[s].pc = "setex"
    /\ \E ok \in BOOLEAN :
         IF ok
         THEN /\ cache' = [cache EXCEPT ![req[s].user] = req[s].data]
              /\ req' = [req EXCEPT ![s].pc = "done", ![s].resp = "ok"]
         ELSE /\ req' = [req EXCEPT ![s].pc = "catch", ![s].data = << >>]
              /\ UNCHANGED cache
    /\ UNCHANGED <<kbRows, docRows, docCount, chunkRows, index, proc, started, call>>

\* getCached: the catch block returns fallback(); when that throws too the
\* route answers 500
ListCatch(s) ==
    /\ req[s].kind = "list" /\ req[s].pc = "catch"
    /\ \E ok \in BOOLEAN :
         req' = IF ok
                THEN [req EXCEPT ![s].pc = "done", ![s].resp = "ok",
                                 ![s].data = <<getKnowledgeBasesWithStatsById(
                                                   kbRows, docRows, req[s].user)>>]
                ELSE [req EXCEPT ![s].pc = "done", ![s].resp = "error"]
    /\ UNCHANGED <<kbRows, docRows, docCount, chunkRows, index, proc, started, call, cache>>

\* the key reaches its time to live of 300 seconds
CacheExpire(u) ==
    /\ cache[u] # << >>
    /\ cache' = [cache EXCEPT ![u] = << >>]
    /\ UNCHANGED <<kbRows, docRows, docCount, chunkRows, index, proc, req, started, call>>

\* POST /api/knowledge: createKnowledgeBase
KbCreate(s, u) ==
    /\ req[s].kind = "idle"
    /\ started < MaxRequests
    /\ started' = started + 1
    /\ "B" \notin DOMAIN kbRows
    /\ kbRows' = [k \in DOMAIN kbRows \cup {"B"} |->
                     IF k = "B" THEN [userId |-> u] ELSE kbRows[k]]
    /\ req' = [req EXCEPT ![s] =
                 [kind |-> "kbCreate", pc |-> "keys", user |-> u, keys |-> {},
                  resp |-> "none"]]
    /\ UNCHANGED <<docRows, docCount, chunkRows, index, proc, call, cache>>

\* invalidateCache(kb:user:<id>*): redis.keys(pattern); a failure is logged
\* and nothing is deleted
KbCreateKeys(s) ==
    /\ req[s].kind = "kbCreate" /\ req[s].pc = "keys"
    /\ \E ok \in BOOLEAN :
         LET keys == IF ok THEN {u \in {req[s].user} : cache[u] # << >>} ELSE {}
         IN  req' = IF keys = {}
                    THEN [req EXCEPT ![s].pc = "done", ![s].resp = "ok"]
                    ELSE [req EXCEPT ![s].pc = "del", ![s].keys = keys]
    /\ UNCHANGED <<kbRows, docRows, docCount, chunkRows, index, proc, started, call, cache>>

\* invalidateCache: redis.del(...keys), then the response
KbCreateDel(s) ==
    /\ req[s].kind = "kbCreate" /\ req[s].pc = "del"
    /\ \E ok \in BOOLEAN :
         cache' = IF ok THEN [u \in Users |-> IF u \in req[s].keys THEN << >> ELSE cache[u]]
                  ELSE cache
    /\ req' = [req EXCEPT ![s].pc = "done", ![s].keys = {}, ![s].resp = "ok"]
    /\ UNCHANGED <<kbRows, docRows, docCount, chunkRows, index, proc, started, call>>

StatsNext ==
    \/ \E s \in ListSlots, u \in ListUsers : ListStart(s, u)
    \/ \E s \in ListSlots : ListGet(s)
    \/ \E s \in ListSlots : ListFallback(s)
    \/ \E s \in ListSlots : ListSetex(s)
    \/ \E s \in ListSlots : ListCatch(s)
    \/ \E u \in Users : CacheExpire(u)
    \/ \E s \in ListSlots, u \in Users : KbCreate(s, u)
    \/ \E s \in ListSlots : KbCreateKeys(s)
    \/ \E s \in ListSlots : KbCreateDel(s)
    \/ \E d \in DocIds : ProcStep(d)
    \/ \E s \in ListSlots, u \in Users, k \in KBIds, d \in DocIds : DocDeleteStart(s, u, k, d)
    \/ \E s \in ListSlots : DocDeleteGetDocument(s)
    \/ \E s \in ListSlots : DocDeleteVectors(s)
    \/ \E s \in ListSlots : DocDeleteChunks(s)
    \/ \E s \in ListSlots : DocDeleteRow(s)
    \/ \E s \in ListSlots : Respond(s)

StatsSpec == StatsInit /\ [][StatsNext]_vars

\* ================================================================ claims ====
Settled(d) == proc[d].pc \in {"done", "unhandled"}

ChunkCount(d) == Cardinality(ChunksOfDoc(chunkRows, d))

VectorsOfDoc(d) == {v \in index : v.documentId = d}

VectorsOfKb(k) == {v \in index : v.knowledgeBaseId = k}

DeleteInFlight == \E s \in Slots : req[s].kind \in {"docDelete", "kbDelete"} /\ req[s].pc # "done"

\* C1: when a step of a document's pipeline has raised an error, the step
\* that ends the pipeline leaves the document (if its row still exists) with
\* status failed and with the message of the error the step raised.
C1_FailedWithStepMessage ==
    [][\A d \in DocIds :
          (/\ ~Settled(d)
           /\ proc'[d].pc \in {"done", "unhandled"}
           /\ proc'[d].err # NoError
           /\ d \in DOMAIN docRows')
          => /\ docRows'[d].status = "failed"
             /\ docRows'[d].errorMessage = proc'[d].err]_vars

\* C2: in every reachable state a ready document has at least one chunk row
\* and a failed or uploading document has none.
C2_ChunksMatchStatus ==
    \A d \in DOMAIN docRows :
        /\ docRows[d].status = "ready" => ChunkCount(d) >= 1
        /\ docRows[d].status \in {"failed", "uploading"} => ChunkCount(d) = 0

\* C3: the status of a document row changes only along uploading->processing,
\* processing->ready, processing->failed and failed->processing; the last
\* only in the update of a reprocess request for that document, and a
\* reprocess request gets to its update only for a failed document; ready
\* is never left.
StatusEdges ==
    {<<"uploading", "processing">>, <<"processing", "ready">>,
     <<"processing", "failed">>, <<"failed", "processing">>}

C3_StatusEdges ==
    [][/\ \A d \in DOMAIN docRows \cap DOMAIN docRows' :
             docRows[d].status # docRows'[d].status
             => /\ <<docRows[d].status, docRows'[d].status>> \in StatusEdges
                /\ docRows[d].status = "failed"
                   => \E s \in Slots : /\ req[s].kind = "reprocess"
                                       /\ req[s].pc = "update"
                                       /\ req[s].doc = d
                                       /\ req'[s].pc = "done"
       /\ \A s \in Slots :
             (req[s].kind = "reprocess" /\ req[s].pc = "getdoc" /\ req'[s].pc = "update")
             => docRows[req[s].doc].status = "failed"]_vars

\* a reprocess request has moved a failed document back to processing
C3_Witness ==
    \E s \in Slots :
        /\ req[s].kind = "reprocess" /\ req[s].pc = "done" /\ req[s].resp = "ok"
        /\ req[s].doc \in DOMAIN docRows
        /\ docRows[req[s].doc].status = "processing"
        /\ proc[req[s].doc].err # NoError

\* C4: no document stays in processing for ever.  Only a pipeline step of
\* the document writes ready or failed, so in every reachable state a
\* document in processing has a pipeline step that can run for it.
C4_ProcessingHasPipeline ==
    \A d \in DOMAIN docRows :
        docRows[d].status = "processing" => ENABLED ProcStep(d)

\* the state C4 excludes, as the reprocess route leaves it: the request has
\* answered, the document is in processing and its pipeline ended long ago
C4_StuckAfterReprocess ==
    \E s \in Slots :
        /\ req[s].kind = "reprocess" /\ req[s].pc = "done" /\ req[s].resp = "ok"
        /\ req[s].doc \in DOMAIN docRows
        /\ docRows[req[s].doc].status = "processing"
        /\ proc[req[s].doc].pc = "done"
        /\ ~ENABLED ProcStep(req[s].doc)

\* C5: whenever no ingestion and no deletion is in flight, the pineconeId of
\* every chunk row names exactly one vector of the index, and that vector
\* carries the chunk's documentId and the knowledgeBaseId of that document.
C5_ChunksResolve ==
    (Ingesting = {} /\ ~DeleteInFlight)
    => \A c \in chunkRows :
          /\ Cardinality({v \in index : v.id = c.pineconeId}) = 1
          /\ \A v \in index :
                v.id = c.pineconeId
                => /\ v.documentId = c.documentId
                   /\ c.documentId \in DOMAIN docRows
                   /\ v.knowledgeBaseId = docRows[c.documentId].knowledgeBaseId

\* C6: once a knowledge-base DELETE by the owner has its response, the
\* knowledge-base row, the member document rows, their chunk rows and the
\* vectors of the knowledge base are all gone.
C6_KbDeleteRemovesAll ==
    \A s \in Slots :
        (/\ req[s].kind = "kbDelete" /\ req[s].pc = "done"
         /\ req[s].resp \notin {"not_found", "forbidden"})
        => /\ req[s].kb \notin DOMAIN kbRows
           /\ DocsOfKb(docRows, req[s].kb) = {}
           /\ \A c \in chunkRows :
                 c.documentId \in DOMAIN docRows
                 => docRows[c.documentId].knowledgeBaseId # req[s].kb
           /\ VectorsOfKb(req[s].kb) = {}

\* the state C6 excludes, for a knowledge base with two ready documents and
\* every index call succeeding: the request has failed, the rows are all
\* there and the vectors are gone
C6_TwoReadyDocuments ==
    \E s \in Slots :
        /\ req[s].kind = "kbDelete" /\ req[s].pc = "done"
        /\ req[s].resp = "error" /\ req[s].vec = "ok"
        /\ req[s].kb \in DOMAIN kbRows
        /\ Cardinality({d \in DocsOfKb(docRows, req[s].kb) :
                           docRows[d].status = "ready" /\ ChunkCount(d) >= 1}) >= 2
        /\ VectorsOfKb(req[s].kb) = {}

C8_MetadataDeletedAnyway ==
    \A s \in Slots :
        (req[s].pc = "done" /\ req[s].vec \in {"threw", "swallowed"})
        => /\ req[s].resp = "ok"
           /\ req[s].kind = "docDelete"
              => req[s].doc \notin DOMAIN docRows /\ ChunkCount(req[s].doc) = 0
           /\ req[s].kind = "kbDelete"
              => req[s].kb \notin DOMAIN kbRows /\ DocsOfKb(docRows, req[s].kb) = {}

\* C9: neither deleteVectorsByDocument nor deleteVectorsByKnowledgeBase
\* ever raises an error to the route that called it.
C9_DeleteNeverThrows ==
    \A s \in Slots : req[s].vec # "threw"

\* C10: a search scoped to a knowledge base returns only vectors whose
\* metadata names that knowledge base and only chunks of documents of that
\* knowledge base.
C10_Isolation ==
    \A s \in Slots :
        req[s].kind = "search"
        => /\ \A i \in 1..Len(req[s].results) :
                 req[s].results[i].metadata.knowledgeBaseId = req[s].kb
           /\ \A i \in 1..Len(req[s].context.chunks) :
                 req[s].context.chunks[i].knowledgeBaseId = req[s].kb

\* a query that returned vectors while a vector of another knowledge base
\* scored higher than every one of them
C10_Witness ==
    \E s \in Slots :
        /\ req[s].kind = "search" /\ req[s].pc = "join"
        /\ Len(req[s].results) >= 1
        /\ \E v \in index :
              /\ v.knowledgeBaseId # req[s].kb
              /\ v.id \in DOMAIN req[s].scores
              /\ req[s].scores[v.id] > req[s].results[1].score

\* C11: an upload call answers with the document only from the step after
\* the bytes were stored; that step creates the row with status processing
\* and starts the pipeline, and when the call answers no pipeline step of
\* the document has finished.
C11_UploadDetached ==
    [][\A s \in Slots :
          (/\ req[s].kind = "upload" /\ req[s].pc # "done"
           /\ req'[s].pc = "done" /\ req'[s].resp = "ok")
          => /\ req[s].pc = "save"
             /\ req'[s].doc \notin DOMAIN docRows
             /\ req'[s].doc \in DOMAIN docRows'
             /\ docRows'[req'[s].doc].status = "processing"
             /\ proc[req'[s].doc].pc = "none"
             /\ proc'[req'[s].doc].pc = "fetch"]_vars

\* an upload call has answered and the pipeline it started has not moved
C11_Witness ==
    \E s \in Slots :
        /\ req[s].kind = "upload" /\ req[s].pc = "done" /\ req[s].resp = "ok"
        /\ req[s].doc \in DOMAIN docRows
        /\ docRows[req[s].doc].status = "processing"
        /\ proc[req[s].doc].pc = "fetch"

\* C12: an error inside the detached ingestion of a document never escapes
\* as an unhandled error and never makes the upload call that started the
\* ingestion fail.
C12_NoUnhandledError ==
    /\ \A d \in DocIds : proc[d].pc # "unhandled"
    /\ \A s \in Slots :
          (req[s].kind = "upload" /\ req[s].pc = "done" /\ req[s].doc # 0)
          => req[s].resp = "ok"

\* C13: whatever the candidate chunks and whatever maxTokens, the token
\* counts of the chunks applyTokenLimit admits sum to at most maxTokens, no
\* admitted chunk alone has a token count above maxTokens, and the
\* totalTokens reported with them is that sum.
C13_WithinTokenBudget ==
    call.fn = "applyTokenLimit" =>
        /\ SumTokens(call.result) <= call.maxTokens
        /\ \A i \in 1..Len(call.result) : call.result[i].tokenCount <= call.maxTokens
        /\ call.totalTokens = SumTokens(call.result)
        /\ call.totalTokens <= call.maxTokens

\* a chunk that did not fit was passed over and a later, less similar chunk
\* was admitted after it
C13_Witness ==
    /\ call.fn = "applyTokenLimit"
    /\ Len(call.chunks) = 3 /\ Len(call.result) = 2
    /\ \E i \in 1..3 :
          /\ \A k \in 1..2 : call.result[k] # call.chunks[i]
          /\ call.chunks[i].similarity > call.result[2].similarity
          /\ call.chunks[i].tokenCount <= call.maxTokens

C15_IdenticalContentOnce ==
    (call.fn = "queryAndFilter" /\ call.threshold[1] < call.threshold[2]) =>
        /\ \A i, j \in 1..Len(call.diverse) :
              i # j => call.diverse[i].metadata.content # call.diverse[j].metadata.content
        /\ \A a, b \in 1..Len(call.cands) :
              (/\ call.cands[a].content = call.cands[b].content
               /\ call.cands[a].score > call.cands[b].score)
              => \A i \in 1..Len(call.diverse) : call.diverse[i].id # b

\* two candidates with identical content both pass minScore, the index
\* returned the lower-scoring one first, and the higher-scoring one is
\* admitted
C15_Witness ==
    /\ call.fn = "queryAndFilter" /\ call.threshold[1] < call.threshold[2]
    /\ \E a, b \in 1..Len(call.cands) :
          /\ b < a
          /\ call.cands[a].content = call.cands[b].content
          /\ call.cands[a].score > call.cands[b].score
          /\ ScorePasses(call.cands[b].score, call.minScore)
          /\ \E i \in 1..Len(call.diverse) : call.diverse[i].id = a

\* C16: queryVectors returns exactly the matches of the index whose score is
\* at least minScore, each once, a match with score 0 included when minScore
\* is 0, in order of non-increasing score.
C16_ExactlyScoreAtLeastMin ==
    call.fn = "queryAndFilter" =>
        /\ {call.results[i].id : i \in 1..Len(call.results)}
              = {i \in 1..Len(call.cands) : call.cands[i].score >= call.minScore}
        /\ \A i, j \in 1..Len(call.results) :
              i # j => call.results[i].id # call.results[j].id
        /\ \A i \in 1..Len(call.results) :
              call.results[i].score = call.cands[call.results[i].id].score
        /\ \A i, j \in 1..Len(call.results) :
              i < j => call.results[i].score >= call.results[j].score

\* C17: a retrieve that answers without error against a knowledge base in
\* which no document has status ready (its documents are processing or
\* failed) answers {chunks: [], totalTokens: 0, sources: []}.
C17_NoReadyDocumentNoContext ==
    [][\A s \in Slots :
          (/\ req[s].kind = "search" /\ req[s].pc # "done"
           /\ req'[s].pc = "done" /\ req'[s].resp = "ok"
           /\ \A d \in DOMAIN docRows :
                 docRows[d].knowledgeBaseId = req[s].kb => docRows[d].status # "ready")
          => req'[s].context = NoContext]_vars

\* C19: when the embedding of one chunk text fails, generateEmbeddings fails
\* as a whole, and the ingestion that called it stops there: a document
\* whose ingestion failed with the batch-embedding error has no vector in the
\* index and no chunk row.
C19_EmbedFailureLeavesNothing ==
    \A d \in DocIds :
        proc[d].err = ErrEmbed => (VectorsOfDoc(d) = {} /\ ChunkCount(d) = 0)

\* an ingestion has ended with the batch-embedding error and its document
\* is marked failed with that message
C19_Witness ==
    \E d \in DOMAIN docRows :
        /\ Settled(d) /\ proc[d].err = ErrEmbed
        /\ docRows[d].status = "failed" /\ docRows[d].errorMessage = ErrEmbed

\* the chunkIndex values of a chunk list, in order
ChunkIndexes(chunks) == [i \in 1..Len(chunks) |-> chunks[i].chunkIndex]

\* splitIntoChunks on every file and splitPDFByPages on every list of pages
\* number the chunks they return 0, 1, .., n-1 in order
SplittersNumberFromZero ==
    /\ \A f \in PageTexts :
          ChunkIndexes(splitIntoChunks(f)) = [i \in 1..Len(splitIntoChunks(f)) |-> i - 1]
    /\ \A pages \in PagesUpTo(MaxPages) :
          LET all == splitPDFByPages(pages).allChunks
          IN  ChunkIndexes(all) = [i \in 1..Len(all) |-> i - 1]

\* C20: the chunk rows of a document carry the chunkIndex values 0..n-1,
\* each once (n = 0: no row); the rows of a document are none or all the
\* chunks of its file, never a part of them; and the plain splitter and the
\* page-aware splitter number their chunks 0..n-1 over the whole document.
C20_ChunkIndexesContiguous ==
    /\ \A d \in DocIds :
          LET rows == ChunksOfDoc(chunkRows, d)
          IN  /\ {c.chunkIndex : c \in rows} = 0..(Cardinality(rows) - 1)
              /\ \A c1, c2 \in rows : c1.chunkIndex = c2.chunkIndex => c1 = c2
              /\ rows # {} => Cardinality(rows) = Len(splitIntoChunks(proc[d].file))
    /\ SplittersNumberFromZero

\* a ready document with its two chunk rows, numbered 0 and 1, and a
\* two-page input whose second page starts at chunk index 2
C20_Witness ==
    /\ \E d \in DOMAIN docRows :
          /\ docRows[d].status = "ready"
          /\ {c.chunkIndex : c \in ChunksOfDoc(chunkRows, d)} = {0, 1}
    /\ \E pages \in PagesUpTo(MaxPages) :
          /\ Len(pages) = 2
          /\ ChunkIndexes(splitPDFByPages(pages).allChunks) = <<0, 1, 2>>

\* C18: when generateEmbeddings on the texts t1..tn succeeds it returns
\* exactly n vectors and the i-th vector is the embedding of ti, whatever
\* the batch size and whatever the order in which the provider calls of a
\* batch complete.
C18_EmbeddingsInInputOrder ==
    (call.fn = "generateEmbeddings" /\ call.status = "resolved") =>
        /\ Len(call.embeddings) = Len(call.texts)
        /\ \A i \in 1..Len(call.texts) :
              call.embeddings[i] = generateEmbedding(call.texts[i])

\* a call has succeeded in which a later text of a batch, different from an
\* earlier one, completed first
C18_Witness ==
    /\ call.fn = "generateEmbeddings" /\ call.status = "resolved"
    /\ Len(call.order) >= 2
    /\ call.order[1] > call.order[2]
    /\ call.texts[call.order[1]] # call.texts[call.order[2]]

\* position p of the text lies in a span recorded on one of the chunks
Covered(p) ==
    \E i \in 1..Len(call.documentChunks) :
        call.documentChunks[i].startIndex <= p /\ p < call.documentChunks[i].endIndex

\* C21: for a non-blank text the spans [startIndex, endIndex) recorded on
\* the chunks of splitIntoChunks cover the text: no stretch of the text
\* longer than the overlap window lies outside every span.
C21_SpansCoverText ==
    call.fn = "splitIntoChunks" =>
        \A p \in 0..(call.textLength - 1 - call.chunkOverlap) :
            \E q \in p..(p + call.chunkOverlap) : Covered(q)

\* C22: once a reprocess request for a failed document has answered, the
\* document is being processed again or its processing has ended; when it
\* has ended in failed the document has no chunk row; and at no time do two
\* chunk rows of the document carry the same chunkIndex.
C22_ReprocessFailsCleanly ==
    \A s \in Slots :
        (/\ req[s].kind = "reprocess" /\ req[s].pc = "done" /\ req[s].resp = "ok"
         /\ req[s].doc \in DOMAIN docRows)
        => LET d == req[s].doc
               rows == ChunksOfDoc(chunkRows, d)
           IN  /\ docRows[d].status = "processing" => ENABLED ProcStep(d)
               /\ docRows[d].status = "failed" => rows = {}
               /\ \A c1, c2 \in rows : c1.chunkIndex = c2.chunkIndex => c1 = c2

\* C23: a step of a retrieve call, whether the call succeeds, finds nothing
\* or fails, changes neither the vector index nor the knowledge base,
\* document and chunk rows, nor any ingestion, nor any other request.
C23_RetrieveWritesNothing ==
    [][\A s \in Slots :
          (req'[s] # req[s] /\ (req[s].kind = "search" \/ req'[s].kind = "search"))
          => /\ UNCHANGED <<kbRows, docRows, docCount, chunkRows, index, proc>>
             /\ \A t \in Slots \ {s} : req'[t] = req[t]]_vars

\* a retrieve call has returned chunks while an ingestion is still running
C23_Witness ==
    \E s \in Slots :
        /\ req[s].kind = "search" /\ req[s].pc = "done" /\ req[s].resp = "ok"
        /\ Len(req[s].context.chunks) >= 1
        /\ \E d \in DocIds : proc[d].pc \notin {"none", "done", "unhandled"}

\* C24: when the cache is not configured or one of its operations fails,
\* getCached ends as its fallback ends: it returns the value the fallback
\* returned, or throws what the fallback threw; and invalidateCache never
\* throws.
C24_CacheFailureFallsBack ==
    /\ (/\ call.fn = "getCached" /\ call.pc \in {"returned", "threw"}
        /\ (~call.redis \/ call.failed))
       => /\ Len(call.fallbacks) >= 1
          /\ call.pc = "returned" =>
                (LastOf(call.fallbacks) # "throw" /\ call.result = LastOf(call.fallbacks))
          /\ call.pc = "threw" => LastOf(call.fallbacks) = "throw"
    /\ call.fn = "invalidateCache" => call.pc # "threw"

\* getCached has returned what its fallback returned after redis.setex
\* failed, although redis.get had answered
C24_Witness ==
    /\ call.fn = "getCached" /\ call.pc = "returned"
    /\ call.redis /\ call.failed
    /\ Len(call.fallbacks) = 2
    /\ call.result = "rows2" /\ call.data = "rows1"

\* the call of the example, in units of 200 characters: a text of 2400
\* characters, chunkSize 1000, chunkOverlap 200
ExampleCall ==
    /\ call.fn = "splitIntoChunks"
    /\ call.textLength = 12 /\ call.chunkSize = 5 /\ call.chunkOverlap = 1

\* each chunk record after the first starts chunkOverlap before the record
\* before it ends, and record i carries chunkIndex i - 1
SpansOverlapAndNumbered ==
    /\ \A i \in 1..Len(call.documentChunks) : call.documentChunks[i].chunkIndex = i - 1
    /\ \A i \in 1..(Len(call.documentChunks) - 1) :
          call.documentChunks[i + 1].startIndex
             = call.documentChunks[i].endIndex - call.chunkOverlap

\* C25, as the code has it: a text of 2400 characters split with chunkSize
\* 1000 and overlap 200 yields one chunk record per chunk the splitter cuts,
\* numbered 0..n-1, and each recorded span starts 200 characters before the
\* span before it ends; n is 3 for a text the splitter cuts at 1000
\* characters and depends on the separators of the text otherwise.
C25_ExampleAsSplit ==
    ExampleCall =>
        /\ Len(call.documentChunks) = Len(call.chunks.lens)
        /\ SpansOverlapAndNumbered

\* C25, as stated: a text of 2400 characters split with chunkSize 1000 and
\* overlap 200 yields exactly 3 chunks with chunkIndex 0, 1, 2 whose recorded
\* spans overlap by 200 characters.
C25_ExampleExactlyThree ==
    ExampleCall => (Len(call.documentChunks) = 3 /\ SpansOverlapAndNumbered)

\* the example as the spec has it: chunks of 1000, 1000 and 800 characters
\* recorded as [0, 1000), [800, 1800), [1600, 2400)
C25_Witness ==
    /\ ExampleCall
    /\ call.chunks.lens = <<5, 5, 4>>
    /\ [i \in 1..3 |-> <<call.documentChunks[i].startIndex, call.documentChunks[i].endIndex>>]
          = << <<0, 5>>, <<4, 9>>, <<8, 12>> >>

\* chunk i of the call is visited before chunk j: higher similarity first,
\* equal similarities in the order given
VisitedBefore(i, j) ==
    \/ call.chunks[i].similarity > call.chunks[j].similarity
    \/ call.chunks[i].similarity = call.chunks[j].similarity /\ i < j

RECURSIVE TokensBefore(_, _, _)
\* the token counts of the chunks among the first n that are in A and are
\* visited before chunk i
TokensBefore(A, i, n) ==
    IF n = 0 THEN 0
    ELSE TokensBefore(A, i, n - 1)
         + (IF n \in A /\ VisitedBefore(n, i) THEN call.chunks[n].tokenCount ELSE 0)

\* A is what first fit by score admits: a chunk is in A exactly when it fits
\* on top of the chunks of A visited before it
FirstFit(A) ==
    \A i \in 1..Len(call.chunks) :
        i \in A <=> TokensBefore(A, i, Len(call.chunks)) + call.chunks[i].tokenCount
                       <= call.maxTokens

\* the result lists the chunks of A in the order they are visited
ResultLists(A) ==
    /\ Len(call.result) = Cardinality(A)
    /\ \A i \in A :
          call.result[1 + Cardinality({j \in A : VisitedBefore(j, i)})] = call.chunks[i]

\* C26, as the code has it: the chunks are visited in descending similarity
\* order; a chunk is admitted exactly when its token count added to the
\* running sum of the chunks admitted before it stays <= maxTokens; a chunk
\* that does not fit is skipped and the visit goes on with the chunks after
\* it.
C26_FirstFitByScore ==
    call.fn = "applyTokenLimit" =>
        \E A \in SUBSET (1..Len(call.chunks)) : FirstFit(A) /\ ResultLists(A)

\* C26, as stated: what first fit admits, and no admitted chunk is smaller
\* and of lower score than a chunk that was skipped.
C26_SkippedNotReplaced ==
    call.fn = "applyTokenLimit" =>
        \E A \in SUBSET (1..Len(call.chunks)) :
            /\ FirstFit(A) /\ ResultLists(A)
            /\ \A i \in (1..Len(call.chunks)) \ A : \A j \in A :
                  ~(/\ call.chunks[j].similarity < call.chunks[i].similarity
                    /\ call.chunks[j].tokenCount < call.chunks[i].tokenCount)

\* a chunk did not fit and was skipped, and a smaller chunk of lower score
\* was admitted after it, next to a chunk admitted before it
C26_Witness ==
    /\ call.fn = "applyTokenLimit"
    /\ Len(call.chunks) = 3 /\ Len(call.result) = 2
    /\ \E i \in 1..3 :
          /\ call.result[1].similarity > call.chunks[i].similarity
          /\ call.chunks[i].similarity > call.result[2].similarity
          /\ call.chunks[i].tokenCount > call.result[2].tokenCount
          /\ call.result[1].tokenCount + call.chunks[i].tokenCount > call.maxTokens

\* C27: every vector carries the embedding of the content it carries; the
\* vector a chunk row names carries the row's document, chunkIndex and
\* content; and no two chunk rows name the same vector.
C27_RowAndVectorAgree ==
    /\ \A v \in index : v.values = generateEmbedding(v.content)
    /\ \A c \in chunkRows : \A v \in index :
          v.id = c.pineconeId =>
              /\ v.documentId = c.documentId
              /\ v.chunkIndex = c.chunkIndex
              /\ v.content = c.content
    /\ \A c1, c2 \in chunkRows : c1.pineconeId = c2.pineconeId => c1 = c2

\* a ready document with two chunks of different content, each with its
\* vector in the index
C27_Witness ==
    \E d \in DOMAIN docRows :
        /\ docRows[d].status = "ready"
        /\ ChunkCount(d) = 2
        /\ \A c \in ChunksOfDoc(chunkRows, d) : \E v \in index : v.id = c.pineconeId
        /\ \E c1, c2 \in ChunksOfDoc(chunkRows, d) : c1.content # c2.content

\* the results of request s that pass the diversity filter
Surviving(s) == applyDiversityFilter(req[s].results, DiversityThreshold)

\* the surviving results of request s for which a chunk row exists
WithRow(s) ==
    {i \in 1..Len(Surviving(s)) : \E c \in chunkRows : c.pineconeId = Surviving(s)[i].id}

RECURSIVE RowTokens(_, _)
\* the token counts of the chunk rows of the first n surviving results
RowTokens(s, n) ==
    IF n = 0 THEN 0
    ELSE RowTokens(s, n - 1)
         + (IF n \in WithRow(s)
            THEN (CHOOSE c \in chunkRows : c.pineconeId = Surviving(s)[n].id).tokenCount
            ELSE 0)

\* C28: when retrieve answers, every chunk of the answer is the chunk row
\* of a surviving candidate, with that candidate's score; a surviving
\* candidate without a chunk row is left out and the call still answers; and
\* when the token budget has room for all of them, every surviving candidate
\* with a chunk row is in the answer.
C28_RowlessCandidateDropped ==
    [][\A s \in Slots :
          (/\ req[s].kind = "search" /\ req[s].pc = "join"
           /\ req'[s].pc = "done" /\ req'[s].resp = "ok")
          => LET chunks == req'[s].context.chunks
                 rowOf(i) == CHOOSE c \in chunkRows : c.pineconeId = Surviving(s)[i].id
             IN  /\ \A n \in 1..Len(chunks) :
                       \E i \in WithRow(s) :
                          /\ chunks[n].id = rowOf(i).id
                          /\ chunks[n].content = rowOf(i).content
                          /\ chunks[n].similarity = Surviving(s)[i].score
                 /\ RowTokens(s, Len(Surviving(s))) <= req[s].options.maxTokens
                       => \A i \in WithRow(s) :
                             \E n \in 1..Len(chunks) : chunks[n].id = rowOf(i).id]_vars

\* a retrieve call is about to join two surviving candidates: the better
\* one has no chunk row, the other one has
C28_Witness ==
    \E s \in Slots :
        /\ req[s].kind = "search" /\ req[s].pc = "join"
        /\ Len(Surviving(s)) = 2
        /\ WithRow(s) = {2}

\* C29: a step of the pipeline of document d changes, of all rows and
\* vectors, only the status and error message of d, the chunk rows of d and
\* the vectors of d; the rows and vectors of every other document, the
\* knowledge bases and the other pipelines stay as they are.
C29_PipelineWritesOwnRows ==
    [][\A d \in DocIds :
          (proc'[d] # proc[d] /\ proc[d].pc # "none")
          => /\ kbRows' = kbRows
             /\ DOMAIN docRows' = DOMAIN docRows
             /\ \A e \in DOMAIN docRows \ {d} : docRows'[e] = docRows[e]
             /\ d \in DOMAIN docRows =>
                   docRows'[d] = [docRows[d] EXCEPT !.status = docRows'[d].status,
                                                    !.errorMessage = docRows'[d].errorMessage]
             /\ {c \in chunkRows' : c.documentId # d} = {c \in chunkRows : c.documentId # d}
             /\ {v \in index' : v.documentId # d} = {v \in index : v.documentId # d}
             /\ \A e \in DocIds \ {d} : proc'[e] = proc[e]]_vars

\* two pipelines are in flight between their writes: one has upserted its
\* vectors, the other has also saved its chunk rows
C29_Witness ==
    \E d, e \in DocIds :
        /\ d # e
        /\ proc[d].pc = "save" /\ VectorsOfDoc(d) # {}
        /\ proc[e].pc = "ready" /\ ChunkCount(e) > 0 /\ VectorsOfDoc(e) # {}

\* the chunk rows and the vectors of document d answer each other one to one
RowsAndVectorsAgree(d) ==
    /\ \A c \in ChunksOfDoc(chunkRows, d) :
          Cardinality({v \in VectorsOfDoc(d) : v.id = c.pineconeId}) = 1
    /\ \A v \in VectorsOfDoc(d) :
          \E c \in ChunksOfDoc(chunkRows, d) : c.pineconeId = v.id

AllGone(d) ==
    d \notin DOMAIN docRows /\ ChunkCount(d) = 0 /\ VectorsOfDoc(d) = {}

AllPresent(d) == d \in DOMAIN docRows /\ RowsAndVectorsAgree(d)

\* C30: once a document DELETE that started while the document's ingestion
\* was in flight has its response and the ingestion has ended, the document
\* row, its chunk rows and its vectors are either all gone or all present
\* with chunk rows and vectors answering each other.
C30_DeleteRaceAllOrNothing ==
    \A s \in Slots :
        (/\ req[s].kind = "docDelete" /\ req[s].pc = "done"
         /\ req[s].resp \in {"ok", "error"}
         /\ ~req[s].idle0 /\ Settled(req[s].doc))
        => AllGone(req[s].doc) \/ AllPresent(req[s].doc)

\* the same with every call of the DELETE having succeeded
C30_RaceAlone ==
    \A s \in Slots :
        (/\ req[s].kind = "docDelete" /\ req[s].pc = "done"
         /\ req[s].resp = "ok" /\ req[s].vec = "ok"
         /\ ~req[s].idle0 /\ Settled(req[s].doc))
        => AllGone(req[s].doc) \/ AllPresent(req[s].doc)

\* a reprocess request for document d has answered after moving d from
\* failed to processing
Reprocessed(d) ==
    \E s \in Slots :
        /\ req[s].kind = "reprocess" /\ req[s].pc = "done"
        /\ req[s].resp = "ok" /\ req[s].doc = d

\* C31: once a reprocess request has moved a failed document to processing,
\* no step of the pipeline run started at the upload of the document (its
\* catch block, the handler attached at upload) changes the status of the
\* document.
C31_NoLateFailureWrite ==
    [][\A d \in DocIds :
          (Reprocessed(d) /\ proc'[d] # proc[d] /\ d \in DOMAIN docRows)
          => /\ d \in DOMAIN docRows'
             /\ docRows'[d].status = docRows[d].status]_vars

\* C32: whenever no ingestion is in flight, the id of every vector in the
\* index is the vector identifier of some chunk row, and a document in
\* failed status has no vectors in the index.
C32_VectorsHaveChunkRows ==
    Ingesting = {}
    => /\ \A v \in index : \E c \in chunkRows : c.pineconeId = v.id
       /\ \A d \in DOMAIN docRows :
             docRows[d].status = "failed" => VectorsOfDoc(d) = {}

\* C33: the context a search returns never holds more than topK chunks.
C33_AtMostTopK ==
    \A s \in Slots :
        req[s].kind = "search"
        => Len(req[s].context.chunks) <= req[s].options.topK

\* C34: a document row has an error message exactly when its status is
\* failed.
C34_MessageIffFailed ==
    \A d \in DOMAIN docRows :
        docRows[d].errorMessage # Null <=> docRows[d].status = "failed"

\* C35: no knowledge base ever holds more than 100 document rows, however
\* the upload requests to it interleave.
C35_AtMostHundredRows ==
    \A k \in KBIds : Cardinality(DocsOfKb(docRows, k)) <= MaxDocsPerKb

\* an upload request the route turns away: one of its files fails the
\* validation, or its limit check found that it would go over the limit
TurnedAway(r) ==
    /\ r.kind = "post"
    /\ \/ \E i \in 1..Len(r.files) : ~RouteAccepts(r.files[i])
       \/ r.resp = "limit_exceeded"

\* C37: a step of an upload request that has a file failing the validation,
\* or that would go over the document limit, stores no blob, creates no
\* document row and starts no pipeline, for any of its files.
C37_UploadAllOrNothing ==
    [][\A s \in UploadSlots :
          (req'[s] # req[s] /\ TurnedAway(req'[s]))
          => /\ docRows' = docRows
             /\ proc' = proc
             /\ req'[s].blobs = << >>
             /\ req'[s].results = << >>
             /\ req'[s].pc = "done"
             /\ req'[s].resp \in {"validation_errors", "limit_exceeded",
                                  "forbidden", "not_found"}]_vars

\* two requests have been turned away, one for its second file after a
\* first file that passes, one at the limit with files that all pass, while
\* the knowledge base still has room for one document
C37_Witness ==
    \E s, t \in UploadSlots :
        /\ req[s].resp = "validation_errors" /\ Len(req[s].files) = 2
        /\ RouteAccepts(req[s].files[1])
        /\ req[t].resp = "limit_exceeded" /\ Len(req[t].files) = 2
        /\ req[t].existing = MaxDocsPerKb - 1

\* C38: every chunk record of splitIntoChunks has
\* 0 <= startIndex <= endIndex <= text.length, and startIndex grows strictly
\* from each record to the next.
C38_SpansWithinTextAndIncreasing ==
    call.fn = "splitIntoChunks" =>
        /\ \A i \in 1..Len(call.documentChunks) :
              /\ 0 <= call.documentChunks[i].startIndex
              /\ call.documentChunks[i].startIndex <= call.documentChunks[i].endIndex
              /\ call.documentChunks[i].endIndex <= call.textLength
        /\ \A i \in 1..(Len(call.documentChunks) - 1) :
              call.documentChunks[i].startIndex < call.documentChunks[i + 1].startIndex

\* the first half of C38 alone
C38_StartNeverNegative ==
    call.fn = "splitIntoChunks" =>
        \A i \in 1..Len(call.documentChunks) : 0 <= call.documentChunks[i].startIndex

\* a statistics listing has answered; when it started no pipeline was running
\* and every change had its response, and no change has started since
ListedAfterChanges(s) ==
    /\ req[s].kind = "list" /\ req[s].pc = "done" /\ req[s].resp = "ok"
    /\ req[s].quiet0 /\ req[s].started0 = started

\* C36: a statistics listing that started after every change had completed
\* returns what the database holds: the knowledge bases of the user with
\* their document counts by status.
C36_ListingReflectsChanges ==
    \A s \in ListSlots :
        ListedAfterChanges(s)
        => req[s].data = <<getKnowledgeBasesWithStatsById(kbRows, docRows, req[s].user)>>

\* the same for the knowledge bases listed, which change only by the
\* creation of a knowledge base, a change that invalidates the cache
C36_ListingAfterInvalidation ==
    \A s \in ListSlots :
        ListedAfterChanges(s)
        => DOMAIN req[s].data[1]
             = DOMAIN getKnowledgeBasesWithStatsById(kbRows, docRows, req[s].user)

====
